---- MODULE Spec2Model ----
\* Survey-administration backend: the Groups table and its handlers
\* (lambda/GroupConfigLambda), the question catalog, answer simulation and
\* ratings (surveyApi), the survey status gate and the completion counter
\* (lambda/incrementsurveycounter), with the dashboard's toggle.
EXTENDS Integers, Sequences, FiniteSets, TLC

\* ------------------------------------------------------------------ bounds
MaxAlloc == 2       \* requests without groupId, each allocating an id
MaxSubmits == 3     \* ratings accepted by POST /rate
MaxInFlight == 2    \* toggle responses on their way to one dashboard
MaxCalls == 3       \* invocations of POST /incrementSurveyCounter
MaxRateCalls == 2   \* invocations of POST /rate that may overlap
MaxPending == 2     \* handleSelectQuestion calls a page may have in flight

\* ------------------------------------------------------------- JS values
\* A JS object is a function from the names of the properties it has to their
\* values; a missing property reads as Undefined.
Undefined == "<undefined>"
Attr(obj, a) == IF a \in DOMAIN obj THEN obj[a] ELSE Undefined
\* v || d on a string-or-undefined value: "" and undefined are falsy
OrElse(v, d) == IF v = Undefined \/ v = "" THEN d ELSE v
\* v ?? d
Nullish(v, d) == IF v = Undefined THEN d ELSE v
EmptyObj == [a \in {} |-> Undefined]

\* Values of a request field that may be a number or a string: a number is
\* held as twice its value, so that halves such as 2.5 are numbers too.
JsUndefined == [type |-> "undefined"]
JsNaN == [type |-> "number", nan |-> TRUE]
JsNum(n) == [type |-> "number", x2 |-> 2 * n]
JsHalves(h) == [type |-> "number", x2 |-> h]
JsStr(str) == [type |-> "string", s |-> str]
JsNull == [type |-> "null"]
JsBool(b) == [type |-> "boolean", b |-> b]
IsNumber(v) == v.type = "number" /\ "x2" \in DOMAIN v
\* truthiness: undefined, null, false, 0, NaN and "" are falsy
Truthy(v) ==
    CASE v.type = "undefined" -> FALSE
      [] v.type = "null" -> FALSE
      [] v.type = "boolean" -> v.b
      [] v.type = "number" -> IsNumber(v) /\ v.x2 # 0
      [] OTHER -> v.s # ""
\* Number(text) on the texts the model uses
StringToNumber(str) ==
    CASE str = "" -> JsNum(0)
      [] str = "0" -> JsNum(0)
      [] str = "1" -> JsNum(1)
      [] str = "2" -> JsNum(2)
      [] str = "3" -> JsNum(3)
      [] str = "5" -> JsNum(5)
      [] str = "2.5" -> JsHalves(5)
      [] OTHER -> JsNaN
\* Number(v)
ToNumber(v) ==
    CASE v.type = "undefined" -> JsNaN
      [] v.type = "number" -> v
      [] OTHER -> StringToNumber(v.s)
\* String(n) of a number
NumberToString(v) ==
    IF ~IsNumber(v) THEN "NaN"
    ELSE IF v.x2 % 2 = 0 THEN ToString(v.x2 \div 2)
    ELSE ToString(v.x2 \div 2) \o ".5"
\* String(v)
ToStr(v) ==
    CASE v.type = "undefined" -> "undefined"
      [] v.type = "number" -> NumberToString(v)
      [] OTHER -> v.s

\* String.prototype.trim().toLowerCase() on the texts the model uses
Normalize(s) ==
    CASE s = "Q1"   -> "q1"
      [] s = " q1 " -> "q1"
      [] s = "Q2"   -> "q2"
      [] OTHER      -> s

\* ------------------------------------------------------------------ JSON
\* JSON.stringify of an array of objects: the bracketed, comma-separated
\* token sequence; each object is one token.
LBracket == [t |-> "["]
RBracket == [t |-> "]"]
Comma == [t |-> ","]
ObjTok(o) == [t |-> "obj", v |-> o]
IsObjTok(tok) == tok.t = "obj"

RECURSIVE JoinTokens(_)
JoinTokens(arr) ==
    IF arr = <<>> THEN <<>>
    ELSE IF Len(arr) = 1 THEN <<ObjTok(arr[1])>>
    ELSE <<ObjTok(arr[1]), Comma>> \o JoinTokens(Tail(arr))
Stringify(arr) == <<LBracket>> \o JoinTokens(arr) \o <<RBracket>>

\* JSON.parse of such a text: [ok |-> TRUE, value |-> array], or ok = FALSE
\* where JSON.parse throws a SyntaxError.
RECURSIVE ParseElems(_, _)
ParseElems(toks, acc) ==
    \* toks: what follows the last element read
    IF toks = <<RBracket>> THEN [ok |-> TRUE, value |-> acc]
    ELSE IF Len(toks) >= 3 /\ toks[1] = Comma /\ IsObjTok(toks[2])
         THEN ParseElems(SubSeq(toks, 3, Len(toks)), Append(acc, toks[2].v))
    ELSE [ok |-> FALSE, value |-> <<>>]
ParseJson(text) ==
    IF Len(text) < 2 \/ text[1] # LBracket THEN [ok |-> FALSE, value |-> <<>>]
    ELSE IF text = <<LBracket, RBracket>> THEN [ok |-> TRUE, value |-> <<>>]
    ELSE IF IsObjTok(text[2])
         THEN ParseElems(SubSeq(text, 3, Len(text)), <<text[2].v>>)
    ELSE [ok |-> FALSE, value |-> <<>>]

\* ----------------------------------------------------------- DynamoDB
\* A table is a function from the keys of its rows to the rows; a row is a
\* function from attribute names to values.
EmptyTable == [k \in {} |-> EmptyObj]
HasItem(table, key) == key \in DOMAIN table
GetItem(table, key) == IF key \in DOMAIN table THEN table[key] ELSE EmptyObj
PutItem(table, key, item) ==
    [k \in DOMAIN table \cup {key} |-> IF k = key THEN item ELSE table[k]]
DeleteItem(table, key) == [k \in DOMAIN table \ {key} |-> table[k]]
\* UpdateItem SET a = v: creates the row (key attribute only) when absent
SetAttr(table, key, keyName, a, v) ==
    LET old == IF key \in DOMAIN table THEN table[key] ELSE (keyName :> key)
    IN  PutItem(table, key, (a :> v) @@ old)

\* ------------------------------------------------------------- requests
\* event.body is a text: `json` holds the value JSON.parse gives for it,
\* any other text makes JSON.parse throw.
JsonBody(v) == [json |-> v]
BadBody == [text |-> "{oops"]
NoBody == [absent |-> TRUE]
ParseBody(body) ==
    IF "json" \in DOMAIN body THEN [ok |-> TRUE, value |-> body.json]
    ELSE [ok |-> FALSE, value |-> EmptyObj]

\* question objects researchers store
qA == [question |-> "Q1", preAnswer |-> "thinking", answer |-> "A1", delay |-> "0"]
qA2 == [question |-> " q1 ", answer |-> "A1b", fontFace |-> "Courier",
        colorScheme |-> "#222222"]
qB == [question |-> "Q2", preAnswer |-> "hmm", answer |-> "A2", delay |-> "abc"]
qA3 == [question |-> "Q1", preAnswer |-> "wait", answer |-> "A9", delay |-> "2"]

\* request payloads of PUT /research-groups/{groupId}/config
cfgStyled == [fontFace |-> "Courier", colorScheme |-> "#111111", questions |-> <<qA>>]
cfgMixed == [fontFace |-> "", colorScheme |-> "#333333", questions |-> <<qA3, qA2, qB>>]
cfgNone == EmptyObj
Configs == {cfgStyled, cfgMixed, cfgNone}
SaveBodies == {JsonBody(c) : c \in Configs} \cup {BadBody}

\* the groupId path parameter: absent, the literal "undefined" the settings
\* page sends, the reserved counter key, a numeric string
PathIds == {Undefined, "undefined", "COUNTER", "1"}

\* request bodies of DELETE /research-groups/{groupId}/config
DeleteBodies == {JsonBody([questionText |-> t]) : t \in {"q1", "Q2"}}
                    \cup {JsonBody(EmptyObj), NoBody}

\* ------------------------------------------------------------ GroupStore
COUNTER == "COUNTER"
ServerError == [statusCode |-> 500, message |-> "Internal Server Error"]

\* getNextGroupId: SET currentId = if_not_exists(currentId, 0) + 1, one
\* atomic UpdateItem on the row keyed "COUNTER"; returns the new value
GetNextGroupId(table) ==
    LET row == GetItem(table, COUNTER)
        cur == IF "currentId" \in DOMAIN row THEN row.currentId ELSE 0
    IN  [table |-> SetAttr(table, COUNTER, "groupId", "currentId", cur + 1),
         id |-> cur + 1]

QuestionsOf(config) ==
    IF "questions" \in DOMAIN config THEN config.questions ELSE <<>>

\* a save that merges: a field the payload omits keeps the stored value
SaveGroupConfigMerging(table, groupId, requestBody) ==
    LET parsed == ParseBody(requestBody)
        config == parsed.value
        old == GetItem(table, groupId)
        item == [groupId |-> groupId,
                 fontFace |-> OrElse(Attr(config, "fontFace"),
                                     OrElse(Attr(old, "fontFace"), "Arial")),
                 colorScheme |-> OrElse(Attr(config, "colorScheme"),
                                        OrElse(Attr(old, "colorScheme"), "#000000")),
                 questionsJson |-> IF "questions" \in DOMAIN config
                                       \/ "questionsJson" \notin DOMAIN old
                                   THEN Stringify(QuestionsOf(config))
                                   ELSE old.questionsJson]
    IN  IF ~parsed.ok THEN [table |-> table, response |-> ServerError]
        ELSE [table |-> PutItem(table, groupId, item),
              response |-> [statusCode |-> 200,
                            message |-> "Saved group " \o groupId,
                            groupId |-> groupId]]

\* saveGroupConfig: parse the body, PutItem the whole row
SaveGroupConfig(table, groupId, requestBody) ==
    LET parsed == ParseBody(requestBody)
        config == parsed.value
        item == [groupId |-> groupId,
                 fontFace |-> OrElse(Attr(config, "fontFace"), "Arial"),
                 colorScheme |-> OrElse(Attr(config, "colorScheme"), "#000000"),
                 questionsJson |-> Stringify(QuestionsOf(config))]
    IN  IF ~parsed.ok THEN [table |-> table, response |-> ServerError]
        ELSE [table |-> PutItem(table, groupId, item),
              response |-> [statusCode |-> 200,
                            message |-> "Saved group " \o groupId,
                            groupId |-> groupId]]

\* getGroupConfig
GetGroupConfig(table, groupId) ==
    LET item == GetItem(table, groupId)
        parsed == IF "questionsJson" \in DOMAIN item
                  THEN ParseJson(item.questionsJson)
                  ELSE [ok |-> TRUE, value |-> <<>>]
    IN  IF ~HasItem(table, groupId)
        THEN [statusCode |-> 404, message |-> "Group " \o groupId \o " not found."]
        ELSE IF ~parsed.ok THEN ServerError
        ELSE [statusCode |-> 200,
              fontFace |-> Attr(item, "fontFace"),
              colorScheme |-> Attr(item, "colorScheme"),
              questions |-> parsed.value]

\* getAllGroupConfigs: the rows of one Scan, in the order the scan gives
GetAllGroupConfigs(table, order) ==
    [statusCode |-> 200, items |-> [i \in 1..Len(order) |-> table[order[i]]]]

\* a filter that stops at the first question it removes
RECURSIVE FilterFirstMatch(_, _)
FilterFirstMatch(arr, normalizedToDelete) ==
    IF arr = <<>> THEN <<>>
    ELSE IF Normalize(OrElse(Attr(arr[1], "question"), "")) # normalizedToDelete
         THEN <<arr[1]>> \o FilterFirstMatch(Tail(arr), normalizedToDelete)
    ELSE Tail(arr)

\* originalQuestions.filter(q => (q.question || "").trim().toLowerCase()
\*                                   !== normalizedToDelete)
RECURSIVE FilterQuestions(_, _)
FilterQuestions(arr, normalizedToDelete) ==
    IF arr = <<>> THEN <<>>
    ELSE IF Normalize(OrElse(Attr(arr[1], "question"), "")) # normalizedToDelete
         THEN <<arr[1]>> \o FilterQuestions(Tail(arr), normalizedToDelete)
    ELSE FilterQuestions(Tail(arr), normalizedToDelete)

\* deleteQuestionFromGroup: GetItem, then DeleteItem or PutItem
DeleteQuestionFromGroup(table, groupId, questionText) ==
    LET item == GetItem(table, groupId)
        parsed == ParseJson(item.questionsJson)
        normalizedToDelete == Normalize(questionText)
        updated == FilterQuestions(parsed.value, normalizedToDelete)
    IN  IF ~HasItem(table, groupId) \/ "questionsJson" \notin DOMAIN item
        THEN [table |-> table,
              response |-> [statusCode |-> 404,
                            message |-> "No questions found for group " \o groupId]]
        ELSE IF ~parsed.ok THEN [table |-> table, response |-> ServerError]
        ELSE IF Len(updated) = 0
        THEN [table |-> DeleteItem(table, groupId),
              response |-> [statusCode |-> 200,
                            message |-> "Deleted entire group row for groupId "
                                            \o groupId]]
        ELSE [table |-> PutItem(table, groupId,
                            [groupId |-> groupId,
                             fontFace |-> OrElse(Attr(item, "fontFace"), "Arial"),
                             colorScheme |-> OrElse(Attr(item, "colorScheme"), "#000000"),
                             questionsJson |-> Stringify(updated)]),
              response |-> [statusCode |-> 200,
                            message |-> "Removed question from group " \o groupId]]

\* !groupId || groupId === "undefined"
NeedsNewId(groupId) == groupId = Undefined \/ groupId = "" \/ groupId = "undefined"

\* exports.handler, case POST/PUT: allocate when no id is given, then save
HandlePut(table, groupId, body) ==
    LET alloc == GetNextGroupId(table)
        newGroupId == IF NeedsNewId(groupId) THEN ToString(alloc.id) ELSE groupId
        base == IF NeedsNewId(groupId) THEN alloc.table ELSE table
    IN  SaveGroupConfig(base, newGroupId, body)

\* exports.handler, case DELETE: a missing body or questionText throws
HandleDelete(table, groupId, body) ==
    LET parsed == ParseBody(body)
        text == Attr(parsed.value, "questionText")
    IN  IF body = NoBody \/ ~parsed.ok \/ text = Undefined \/ text = ""
        THEN [table |-> table, response |-> ServerError]
        ELSE DeleteQuestionFromGroup(table, groupId, text)

\* all orders in which a Scan can return the rows with the given keys
RECURSIVE Orders(_)
Orders(keys) ==
    IF keys = {} THEN {<<>>}
    ELSE UNION {{<<k>> \o o : o \in Orders(keys \ {k})} : k \in keys}

\* -------------------------------------------------------- QuestionCatalog
\* itm.a?.S ?? "": a string attribute of a scanned row, "" when it has none
StrAttr(itm, a) == Nullish(Attr(itm, a), "")

\* a reading of the blob that keeps the objects found in a text JSON.parse
\* rejects
RowQuestionsSalvaging(itm) ==
    IF "questionsJson" \in DOMAIN itm /\ Len(itm.questionsJson) > 0
    THEN LET objs == SelectSeq(itm.questionsJson, IsObjTok)
         IN  [i \in 1..Len(objs) |-> objs[i].v]
    ELSE <<>>

\* the array a row contributes: its parsed questionsJson, [] when the row has
\* none or when JSON.parse throws
RowQuestions(itm) ==
    IF "questionsJson" \in DOMAIN itm /\ Len(itm.questionsJson) > 0
    THEN LET parsed == ParseJson(itm.questionsJson)
         IN  IF parsed.ok THEN parsed.value ELSE <<>>
    ELSE <<>>

\* a flattening that lets a question's own fontFace and colorScheme override
\* those of its row
RECURSIVE PushQuestionsWithOverrides(_, _, _)
PushQuestionsWithOverrides(flat, arr, itm) ==
    IF arr = <<>> THEN flat
    ELSE PushQuestionsWithOverrides(
            Append(flat, [assignedId |-> Len(flat) + 1,
                          question |-> Nullish(Attr(arr[1], "question"), ""),
                          preAnswer |-> Nullish(Attr(arr[1], "preAnswer"), "Thinking..."),
                          answer |-> Nullish(Attr(arr[1], "answer"), ""),
                          delay |-> Nullish(Attr(arr[1], "delay"), "1"),
                          groupId |-> StrAttr(itm, "groupId"),
                          colorScheme |-> Nullish(Attr(arr[1], "colorScheme"),
                                                  StrAttr(itm, "colorScheme")),
                          fontFace |-> Nullish(Attr(arr[1], "fontFace"),
                                               StrAttr(itm, "fontFace"))]),
            Tail(arr), itm)

\* arr.forEach(obj => flat.push({assignedId: nextId++, ...}))
RECURSIVE PushQuestions(_, _, _)
PushQuestions(flat, arr, itm) ==
    IF arr = <<>> THEN flat
    ELSE PushQuestions(
            Append(flat, [assignedId |-> Len(flat) + 1,
                          question |-> Nullish(Attr(arr[1], "question"), ""),
                          preAnswer |-> Nullish(Attr(arr[1], "preAnswer"), "Thinking..."),
                          answer |-> Nullish(Attr(arr[1], "answer"), ""),
                          delay |-> Nullish(Attr(arr[1], "delay"), "1"),
                          groupId |-> StrAttr(itm, "groupId"),
                          colorScheme |-> StrAttr(itm, "colorScheme"),
                          fontFace |-> StrAttr(itm, "fontFace")]),
            Tail(arr), itm)

\* a flattening whose counter is declared inside the loop over the rows:
\* the numbering restarts at 1 with every row
RECURSIVE FlattenRowsRestarting(_, _, _)
FlattenRowsRestarting(flat, table, order) ==
    IF order = <<>> THEN flat
    ELSE FlattenRowsRestarting(
            flat \o PushQuestions(<<>>, RowQuestions(table[order[1]]), table[order[1]]),
            table, Tail(order))

\* for (const itm of allItems): the rows in scan order
RECURSIVE FlattenRows(_, _, _)
FlattenRows(flat, table, order) ==
    IF order = <<>> THEN flat
    ELSE FlattenRows(PushQuestions(flat, RowQuestions(table[order[1]]), table[order[1]]),
                     table, Tail(order))

\* getQuestionsAllRows: the new cache and the projection returned
GetQuestionsAllRows(table, order) ==
    LET flat == FlattenRows(<<>>, table, order)
    IN  [cache |-> flat,
         list |-> [i \in 1..Len(flat) |->
                      [id |-> flat[i].assignedId, question |-> flat[i].question]]]

\* --------------------------------------------------------- AnswerSimulator
\* allDbQuestions.find(q => q.assignedId === questionId): the index, 0 if none
FindQuestion(cache, questionId) ==
    IF \E i \in DOMAIN cache : IsNumber(questionId) /\ questionId.x2 = 2 * cache[i].assignedId
    THEN CHOOSE i \in DOMAIN cache :
            /\ IsNumber(questionId) /\ questionId.x2 = 2 * cache[i].assignedId
            /\ \A k \in 1..(i - 1) : questionId.x2 # 2 * cache[k].assignedId
    ELSE 0

\* sleep(Number(dbQ.delay || 1) * 1000): the milliseconds waited; setTimeout
\* takes NaN as 0
SleepMs(delay) ==
    LET n == IF delay = "" THEN JsNum(1) ELSE StringToNumber(delay)
    IN  IF IsNumber(n) THEN (n.x2 * 1000) \div 2 ELSE 0

\* a handleAsk that takes questionId as the array index, allDbQuestions[id]
HandleAskByIndex(cache, table, order, questionId, phase) ==
    LET rebuilt == Len(cache) = 0
        cache2 == IF rebuilt THEN GetQuestionsAllRows(table, order).cache ELSE cache
        i == IF IsNumber(questionId) /\ questionId.x2 % 2 = 0
                  /\ (questionId.x2 \div 2) + 1 \in DOMAIN cache2
             THEN (questionId.x2 \div 2) + 1 ELSE 0
        dbQ == cache2[i]
    IN  IF ~Truthy(questionId)
        THEN [cache |-> cache, rebuilt |-> FALSE, waitedMs |-> 0,
              body |-> [message |-> "Missing questionId"]]
        ELSE IF i = 0
        THEN [cache |-> cache2, rebuilt |-> rebuilt, waitedMs |-> 0,
              body |-> [message |-> "No DB question for id " \o ToStr(questionId)]]
        ELSE IF phase = Undefined \/ phase = "pre"
        THEN [cache |-> cache2, rebuilt |-> rebuilt, waitedMs |-> 0,
              body |-> [preAnswerMessage |-> dbQ.preAnswer]]
        ELSE [cache |-> cache2, rebuilt |-> rebuilt, waitedMs |-> SleepMs(dbQ.delay),
              body |-> [finalAnswer |-> dbQ.answer,
                        colorScheme |-> dbQ.colorScheme,
                        fontFace |-> dbQ.fontFace]]

\* a handleAsk that rebuilds the catalog on every lookup
HandleAskRebuilding(cache, table, order, questionId, phase) ==
    LET cache2 == GetQuestionsAllRows(table, order).cache
        i == FindQuestion(cache2, questionId)
        dbQ == cache2[i]
    IN  IF ~Truthy(questionId)
        THEN [cache |-> cache, rebuilt |-> FALSE, waitedMs |-> 0,
              body |-> [message |-> "Missing questionId"]]
        ELSE IF i = 0
        THEN [cache |-> cache2, rebuilt |-> TRUE, waitedMs |-> 0,
              body |-> [message |-> "No DB question for id " \o ToStr(questionId)]]
        ELSE IF phase = Undefined \/ phase = "pre"
        THEN [cache |-> cache2, rebuilt |-> TRUE, waitedMs |-> 0,
              body |-> [preAnswerMessage |-> dbQ.preAnswer]]
        ELSE [cache |-> cache2, rebuilt |-> TRUE, waitedMs |-> SleepMs(dbQ.delay),
              body |-> [finalAnswer |-> dbQ.answer,
                        colorScheme |-> dbQ.colorScheme,
                        fontFace |-> dbQ.fontFace]]

\* handleAsk: rebuilds when the cache is empty; phase defaults to "pre"
HandleAsk(cache, table, order, questionId, phase) ==
    LET rebuilt == Len(cache) = 0
        cache2 == IF rebuilt THEN GetQuestionsAllRows(table, order).cache ELSE cache
        i == FindQuestion(cache2, questionId)
        dbQ == cache2[i]
    IN  IF ~Truthy(questionId)
        THEN [cache |-> cache, rebuilt |-> FALSE, waitedMs |-> 0,
              body |-> [message |-> "Missing questionId"]]
        ELSE IF i = 0
        THEN [cache |-> cache2, rebuilt |-> rebuilt, waitedMs |-> 0,
              body |-> [message |-> "No DB question for id " \o ToStr(questionId)]]
        ELSE IF phase = Undefined \/ phase = "pre"
        THEN [cache |-> cache2, rebuilt |-> rebuilt, waitedMs |-> 0,
              body |-> [preAnswerMessage |-> dbQ.preAnswer]]
        ELSE [cache |-> cache2, rebuilt |-> rebuilt, waitedMs |-> SleepMs(dbQ.delay),
              body |-> [finalAnswer |-> dbQ.answer,
                        colorScheme |-> dbQ.colorScheme,
                        fontFace |-> dbQ.fontFace]]

\* bodies of POST /ask: questionId and phase
AskRequests ==
    {[questionId |-> JsNum(i), phase |-> ph] : i \in {1, 2, 4}, ph \in {"pre", "final"}}
        \cup {[questionId |-> JsNum(1), phase |-> Undefined],
              [questionId |-> JsNum(0), phase |-> "pre"],
              [questionId |-> JsStr("1"), phase |-> "pre"],
              [questionId |-> JsUndefined, phase |-> "final"]}

CatalogBodies == {JsonBody(c) : c \in {cfgStyled, cfgMixed}}

\* -------------------------------------------------------------- RatingStore
\* UpdateItem ADD #c :one on the Responses row keyed `key`: creates the row,
\* creates the attribute, or adds 1 to it
AddOne(table, key, col) ==
    LET old == IF key \in DOMAIN table THEN table[key] ELSE [questionId |-> key]
        n == IF col \in DOMAIN old THEN old[col] ELSE 0
    IN  PutItem(table, key, (col :> (n + 1)) @@ old)

\* UpdateItem SET #q = if_not_exists(#q, :t)
SetIfNotExists(table, key, a, v) ==
    IF key \in DOMAIN table /\ a \in DOMAIN table[key] THEN table
    ELSE SetAttr(table, key, "questionId", a, v)

\* UpdateItem SET #q = :t, whatever the row holds
SetAlways(table, key, a, v) == SetAttr(table, key, "questionId", a, v)

\* a check that lets 0 through
RatingInRangeFromZero(r) == IsNumber(r) /\ r.x2 >= 0 /\ r.x2 <= 10
\* r >= 1 && r <= 5 (false for NaN)
RatingInRange(r) == IsNumber(r) /\ r.x2 >= 2 /\ r.x2 <= 10

\* the text the cache resolves questionId to, "" when it resolves to none:
\* allDbQuestions.find(q => q.assignedId === Number(questionId))?.question || ""
ResolveText(cache, questionId) ==
    LET i == FindQuestion(cache, ToNumber(questionId))
    IN  IF i = 0 THEN "" ELSE cache[i].question

\* a handleRate that writes the question text on every rating
HandleRateOverwriting(table, cache, questionId, rating) ==
    LET r == ToNumber(rating)
        key == ToStr(questionId)
        ratingCol == "rating" \o NumberToString(r)
        added == AddOne(table, key, ratingCol)
        text == ResolveText(cache, questionId)
    IN  IF ~Truthy(questionId) \/ ~RatingInRange(r)
        THEN [table |-> table, body |-> [message |-> "Invalid input"]]
        ELSE [table |-> IF text # "" THEN SetAlways(added, key, "question", text)
                        ELSE added,
              body |-> [message |-> "Rating stored",
                        updated |-> (ratingCol :> added[key][ratingCol])]]

\* handleRate: validate, ADD 1 to the rating column, then back-fill the
\* question text; UPDATED_NEW returns the rating column alone, so the
\* back-fill is tried on every rating and if_not_exists keeps the first text
HandleRate(table, cache, questionId, rating) ==
    LET r == ToNumber(rating)
        key == ToStr(questionId)
        ratingCol == "rating" \o NumberToString(r)
        added == AddOne(table, key, ratingCol)
        text == ResolveText(cache, questionId)
    IN  IF ~Truthy(questionId) \/ ~RatingInRange(r)
        THEN [table |-> table, body |-> [message |-> "Invalid input"]]
        ELSE [table |-> IF text # "" THEN SetIfNotExists(added, key, "question", text)
                        ELSE added,
              body |-> [message |-> "Rating stored",
                        updated |-> (ratingCol :> added[key][ratingCol])]]

\* handleRate up to its first await: the validation and ADD #c :one
FirstUpdate(table, questionId, rating) ==
    LET r == ToNumber(rating)
        key == ToStr(questionId)
        ratingCol == "rating" \o NumberToString(r)
        added == AddOne(table, key, ratingCol)
    IN  IF ~Truthy(questionId) \/ ~RatingInRange(r)
        THEN [valid |-> FALSE, table |-> table,
              body |-> [message |-> "Invalid input"]]
        ELSE [valid |-> TRUE, table |-> added,
              body |-> [message |-> "Rating stored",
                        updated |-> (ratingCol :> added[key][ratingCol])]]

\* a back-fill that writes the text whatever the row holds
BackfillQuestionOverwriting(table, cache, questionId) ==
    LET text == ResolveText(cache, questionId)
    IN  IF text # "" THEN SetAlways(table, ToStr(questionId), "question", text)
        ELSE table

\* handleRate after its first await: upd.Attributes holds the rating column
\* alone, so the text is looked up in the cache as it is now and written
\* with SET #q = if_not_exists(#q, :t)
BackfillQuestion(table, cache, questionId) ==
    LET text == ResolveText(cache, questionId)
    IN  IF text # "" THEN SetIfNotExists(table, ToStr(questionId), "question", text)
        ELSE table

\* invocations of POST /rate that may overlap, and their bodies
RateCalls == 1..MaxRateCalls
StepRequests ==
    {[questionId |-> JsNum(1), rating |-> JsNum(3)],
     [questionId |-> JsNum(1), rating |-> JsNum(5)],
     [questionId |-> JsNum(2), rating |-> JsNum(3)],
     [questionId |-> JsNum(2), rating |-> JsNum(6)]}

\* item.ratingN || 0
CounterOf(item, col) == IF col \in DOMAIN item THEN item[col] ELSE 0

\* the projection getAllRatings makes of one row
RatingSummary(item) ==
    [questionId |-> item.questionId,
     question |-> Attr(item, "question"),
     rating1 |-> CounterOf(item, "rating1"),
     rating2 |-> CounterOf(item, "rating2"),
     rating3 |-> CounterOf(item, "rating3"),
     rating4 |-> CounterOf(item, "rating4"),
     rating5 |-> CounterOf(item, "rating5")]

\* getAllRatings: one Scan of Responses, each row projected
GetAllRatings(table, order) ==
    [i \in 1..Len(order) |-> RatingSummary(table[order[i]])]

\* bodies of POST /rate: questionId and rating
RateRequests ==
    {[questionId |-> JsNum(1), rating |-> JsNum(3)],
     [questionId |-> JsNum(1), rating |-> JsNum(5)],
     [questionId |-> JsStr("1"), rating |-> JsStr("3")],
     [questionId |-> JsNum(2), rating |-> JsNum(3)],
     [questionId |-> JsNum(1), rating |-> JsNum(1)],
     [questionId |-> JsNum(2), rating |-> JsNum(2)],
     [questionId |-> JsNum(2), rating |-> JsNum(4)],
     [questionId |-> JsNum(1), rating |-> JsHalves(5)],
     [questionId |-> JsNum(1), rating |-> JsNum(0)],
     [questionId |-> JsNum(2), rating |-> JsNum(6)],
     [questionId |-> JsNum(2), rating |-> JsStr("abc")],
     [questionId |-> JsNum(1), rating |-> JsUndefined],
     [questionId |-> JsUndefined, rating |-> JsNum(3)]}

\* payloads that put different texts at catalog id 1
cfgSwapped == [questions |-> <<qB, qA>>]
RateBodies == {JsonBody(c) : c \in {cfgStyled, cfgSwapped}}

\* ------------------------------------------------------- SurveyStatusGate
SURVEY_ID == "my-survey"

\* GET: { isOpen: Item?.isOpen ?? false }
StatusGet(table) ==
    LET Item == GetItem(table, SURVEY_ID)
    IN  [statusCode |-> 200,
         body |-> [isOpen |-> IF "isOpen" \in DOMAIN Item THEN Item.isOpen
                              ELSE FALSE]]

\* a POST that keeps the stored value when the row has one
StatusPostIfAbsent(table, body) ==
    LET parsed == ParseBody(body)
        Item == GetItem(table, SURVEY_ID)
    IN  IF ~parsed.ok \/ "isOpen" \notin DOMAIN parsed.value
        THEN [table |-> table,
              response |-> [statusCode |-> 500, body |-> [message |-> "error"]]]
        ELSE [table |-> IF "isOpen" \in DOMAIN Item THEN table
                        ELSE SetAttr(table, SURVEY_ID, "surveyId", "isOpen",
                                     parsed.value.isOpen),
              response |-> [statusCode |-> 200,
                            body |-> [message |-> "Updated",
                                      isOpen |-> parsed.value.isOpen]]]

\* POST: JSON.parse(event.body) throws on a missing or malformed body and the
\* document client refuses an undefined :s, both caught as 500; otherwise
\* SET isOpen = :s on the singleton row
StatusPost(table, body) ==
    LET parsed == ParseBody(body)
    IN  IF ~parsed.ok \/ "isOpen" \notin DOMAIN parsed.value
        THEN [table |-> table,
              response |-> [statusCode |-> 500, body |-> [message |-> "error"]]]
        ELSE [table |-> SetAttr(table, SURVEY_ID, "surveyId", "isOpen",
                                parsed.value.isOpen),
              response |-> [statusCode |-> 200,
                            body |-> [message |-> "Updated",
                                      isOpen |-> parsed.value.isOpen]]]

\* the surveyStatus handler
SurveyStatusHandler(table, method, body) ==
    IF method = "GET" THEN [table |-> table, response |-> StatusGet(table)]
    ELSE IF method = "POST" THEN StatusPost(table, body)
    ELSE [table |-> table,
          response |-> [statusCode |-> 405,
                        body |-> [message |-> "Method Not Allowed"]]]

\* requests clients of /survey-status send
StatusRequests ==
    {[method |-> "GET", body |-> NoBody],
     [method |-> "DELETE", body |-> NoBody],
     [method |-> "POST", body |-> JsonBody([isOpen |-> TRUE])],
     [method |-> "POST", body |-> JsonBody([isOpen |-> FALSE])],
     [method |-> "POST", body |-> JsonBody(EmptyObj)],
     [method |-> "POST", body |-> NoBody]}

\* browser sessions showing the Dashboard
Dashboards == {"d1", "d2"}
\* the body toggleSurvey posts: { isOpen: !isSurveyOpen }
ToggleBody(local) == JsonBody([isOpen |-> ~Truthy(local)])

\* ------------------------------------------------------ CompletionCounter
COUNTER_KEY == "totalSurveys"

\* an update that starts from :start whatever the row holds
IncrementCountFromStart(table) ==
    [table |-> SetAttr(table, COUNTER_KEY, "totalSurveys", "count", 0 + 1),
     newCount |-> 0 + 1]

\* SET #count = if_not_exists(#count, :start) + :inc, ReturnValues
\* UPDATED_NEW: one atomic UpdateItem
IncrementCount(table) ==
    LET row == GetItem(table, COUNTER_KEY)
        cur == IF "count" \in DOMAIN row THEN row.count ELSE 0
    IN  [table |-> SetAttr(table, COUNTER_KEY, "totalSurveys", "count", cur + 1),
         newCount |-> cur + 1]

\* what the handler returns once the update is done: the publish is skipped
\* when SNS_TOPIC_ARN is unset, and a publish that throws is caught as 500
IncrementResponse(newCount, publish) ==
    IF publish = "failed"
    THEN [statusCode |-> 500, body |-> [error |-> "publish failed"]]
    ELSE [statusCode |-> 200, body |-> [count |-> newCount]]
PublishOutcomes == {"skipped", "sent", "failed"}

\* GET /getSurveyCounter: { count: Item?.count ?? 0 }
GetSurveyCounter(table) ==
    LET Item == GetItem(table, COUNTER_KEY)
    IN  [statusCode |-> 200,
         body |-> [count |-> IF "count" \in DOMAIN Item THEN Item.count ELSE 0]]

\* any other method or path
CounterNotFound == [statusCode |-> 404, body |-> [message |-> "Not Found"]]

Calls == 1..MaxCalls

\* --------------------------------- GroupConfigLambda, invocations in flight
\* the invocations of GroupConfigLambda that may overlap
GroupCalls == {"g1", "g2"}
\* the saves and deletes the overlapping invocations handle
StepIds == {"1", Undefined}
StepSaveBodies == {JsonBody(cfgStyled), JsonBody(cfgMixed), JsonBody(cfgNone), BadBody}
StepDeleteBodies ==
    {JsonBody([questionText |-> "Q1"]), JsonBody([questionText |-> "q2 "]), NoBody}

\* the table a GetCommand's result stands for: the row read, if there was one
ReadTable(groupId, found, item) ==
    IF found THEN PutItem(EmptyTable, groupId, item) ELSE EmptyTable

\* deleteQuestionFromGroup from the return of its GetCommand: the DeleteItem
\* or PutItem it computes from the row it read, applied to the table as it
\* is now
DeleteAfterRead(table, groupId, found, item, questionText) ==
    LET r == DeleteQuestionFromGroup(ReadTable(groupId, found, item), groupId,
                                     questionText)
    IN  [table |-> IF r.response.statusCode # 200 THEN table
                   ELSE IF HasItem(r.table, groupId)
                        THEN PutItem(table, groupId, r.table[groupId])
                        ELSE DeleteItem(table, groupId),
         response |-> r.response]

\* ------------------------------------------ surveyApi, invocations in flight
\* the invocations one surveyApi process may have in flight
ApiCalls == {"a1", "a2"}
\* the bodies of POST /ask the overlapping invocations handle
StepAsks ==
    {[questionId |-> JsNum(1), phase |-> "pre"],
     [questionId |-> JsNum(2), phase |-> "final"]}

\* ------------------------------------------------------ GroupSettings page
\* fetchSettings, per question: { ...q, fontFace: q.fontFace || group.fontFace
\* || 'Arial', colorScheme: ..., groupId: group.groupId }
PageQuestion(q, group) ==
    [a \in DOMAIN q \cup {"fontFace", "colorScheme", "groupId"} |->
        IF a = "fontFace"
        THEN OrElse(Attr(q, "fontFace"), OrElse(Attr(group, "fontFace"), "Arial"))
        ELSE IF a = "colorScheme"
        THEN OrElse(Attr(q, "colorScheme"),
                    OrElse(Attr(group, "colorScheme"), "#000000"))
        ELSE IF a = "groupId" THEN Attr(group, "groupId")
        ELSE q[a]]

\* fetchSettings: the questions of every group of GET /research-groups/all,
\* group by group in the order of the response
RECURSIVE FetchSettings(_, _)
FetchSettings(table, order) ==
    IF order = <<>> THEN <<>>
    ELSE LET group == table[order[1]]
             qs == RowQuestions(group)
         IN  [i \in 1..Len(qs) |-> PageQuestion(qs[i], group)]
                 \o FetchSettings(table, Tail(order))

\* handleSubmit, one turn of its loop: PUT { fontFace, colorScheme,
\* questions: [q] } to the question's group
SubmitQuestion(table, q) ==
    LET groupId == IF Attr(q, "groupId") \notin {Undefined, "", "undefined"}
                   THEN q.groupId ELSE "undefined"
    IN  HandlePut(table, groupId,
                  JsonBody([fontFace |-> Attr(q, "fontFace"),
                            colorScheme |-> Attr(q, "colorScheme"),
                            questions |-> <<q>>])).table

\* handleSubmit: for (let i = 0; i < questions.length; i++) await axios.put
RECURSIVE HandleSubmit(_, _)
HandleSubmit(table, questions) ==
    IF questions = <<>> THEN table
    ELSE HandleSubmit(SubmitQuestion(table, questions[1]), Tail(questions))

\* ---------------------------------------------------- SimulatedAIPage
\* browser sessions showing the participant page
Participants == {"p1", "p2"}
\* selectedQuestion === null
NoSelection == [id |-> 0, question |-> ""]
\* the useState initial values of a page just mounted; `effects` holds the
\* useEffect(..., []) callbacks that have not run yet
PageMounted ==
    [isSurveyOpen |-> JsNull, questions |-> <<>>, selectedQuestion |-> NoSelection,
     preMessage |-> "", finalAnswer |-> "", rating |-> 0,
     answerColor |-> "#000", answerFont |-> "Arial",
     showThankYouPopup |-> FALSE, asks |-> <<>>,
     effects |-> {"checkSurveyStatus", "loadQuestions"}]
\* the survey is rendered: isSurveyOpen is neither null nor falsy
Rendered(page) == Truthy(page.isSurveyOpen)

\* handleSelectQuestion up to its first fetch: the selection and the resets
SelectedPage(page, q) ==
    [page EXCEPT !.selectedQuestion = q, !.preMessage = "", !.finalAnswer = "",
                 !.rating = 0, !.answerColor = "#000", !.answerFont = "Arial",
                 !.asks = Append(@, [q |-> q, phase |-> "pre"])]

\* the asks of a page without the i-th
DropAsk(asks, i) == [j \in 1..(Len(asks) - 1) |-> IF j < i THEN asks[j] ELSE asks[j + 1]]

\* handleSelectQuestion from the return of a fetch of /ask: after the "pre"
\* answer setPreMessage and the "final" fetch, after the "final" answer
\* setFinalAnswer, setAnswerColor, setAnswerFont
AnswerShown(page, i, body) ==
    LET ask == page.asks[i]
    IN  IF ask.phase = "pre"
        THEN [page EXCEPT !.preMessage = OrElse(Attr(body, "preAnswerMessage"), ""),
                          !.asks = [@ EXCEPT ![i] = [q |-> ask.q, phase |-> "final"]]]
        ELSE [page EXCEPT !.finalAnswer = OrElse(Attr(body, "finalAnswer"), ""),
                          !.answerColor = OrElse(Attr(body, "colorScheme"), @),
                          !.answerFont = OrElse(Attr(body, "fontFace"), @),
                          !.asks = DropAsk(page.asks, i)]

\* ------------------------------------------------- rows found by a Scan
\* the row a save of `config` leaves under groupId
SavedRow(groupId, config) ==
    SaveGroupConfig(EmptyTable, groupId, JsonBody(config)).table[groupId]
\* texts JSON.parse rejects: cut short, without its opening bracket, with a
\* trailing comma
BrokenBlobs ==
    {<<LBracket, ObjTok(qA)>>,
     <<ObjTok(qB), RBracket>>,
     <<LBracket, ObjTok(qA), Comma, RBracket>>}
\* a row whose questionsJson was not written by saveGroupConfig
BrokenRow(groupId, blob) ==
    [groupId |-> groupId, fontFace |-> "Arial", colorScheme |-> "#000000",
     questionsJson |-> blob]
ScanKeys == {"1", "2", "3"}
RowsFor(g) ==
    {SavedRow(g, cfgStyled), SavedRow(g, cfgMixed)}
        \cup {BrokenRow(g, b) : b \in BrokenBlobs}
\* the Groups tables a Scan may find
ScanTables ==
    UNION {{t \in [ks -> UNION {RowsFor(g) : g \in ks}] :
                \A g \in ks : t[g] \in RowsFor(g)} : ks \in SUBSET ScanKeys}

\* ------------------------------------------------------ ProjectResearchers
\* rows of the Projects table are keyed by <<projectId, id>>, the partition
\* and sort key that the DeleteCommand of handleRemoveResearcher names
Falsy(v) == v = Undefined \/ v = ""
badRequest(msg) == [statusCode |-> 400, body |-> [message |-> msg]]
EmailOrder == <<"a@x", "b@x">>

\* handleGetResearchers: Query by projectId, rows in sort-key order
HandleGetResearchers(table, projectId) ==
    IF Falsy(projectId) THEN [table |-> table,
                              response |-> badRequest("Missing projectId in path")]
    ELSE LET present == SelectSeq(EmailOrder,
                                  LAMBDA e : <<projectId, e>> \in DOMAIN table)
         IN  [table |-> table,
              response |-> [statusCode |-> 200,
                            body |-> [i \in 1..Len(present) |->
                                         table[<<projectId, present[i]>>]]]]

\* an add whose PutCommand carries no condition
HandleAddResearcherOverwriting(table, projectId, researcherEmail, researcherName) ==
    LET newItem == [projectId |-> projectId, id |-> researcherEmail,
                    researcherName |-> OrElse(researcherName, "")]
    IN  IF Falsy(projectId)
        THEN [table |-> table, response |-> badRequest("Missing projectId in path")]
        ELSE IF Falsy(researcherEmail)
        THEN [table |-> table,
              response |-> badRequest("Missing researcherEmail in body")]
        ELSE [table |-> PutItem(table, <<projectId, researcherEmail>>, newItem),
              response |-> [statusCode |-> 200,
                            body |-> [message |-> "added", projectId |-> projectId,
                                      researcher |-> newItem]]]

\* handleAddResearcher: PutCommand under attribute_not_exists(projectId) AND
\* attribute_not_exists(id); ConditionalCheckFailedException is answered 409
HandleAddResearcher(table, projectId, researcherEmail, researcherName) ==
    LET newItem == [projectId |-> projectId, id |-> researcherEmail,
                    researcherName |-> OrElse(researcherName, "")]
    IN  IF Falsy(projectId)
        THEN [table |-> table, response |-> badRequest("Missing projectId in path")]
        ELSE IF Falsy(researcherEmail)
        THEN [table |-> table,
              response |-> badRequest("Missing researcherEmail in body")]
        ELSE IF <<projectId, researcherEmail>> \in DOMAIN table
        THEN [table |-> table,
              response |-> [statusCode |-> 409,
                            body |-> [message |-> "already exists"]]]
        ELSE [table |-> PutItem(table, <<projectId, researcherEmail>>, newItem),
              response |-> [statusCode |-> 200,
                            body |-> [message |-> "added", projectId |-> projectId,
                                      researcher |-> newItem]]]

\* handleRemoveResearcher: DeleteCommand, 200 whether or not the row existed
HandleRemoveResearcher(table, projectId, researcherEmail) ==
    IF Falsy(projectId)
    THEN [table |-> table, response |-> badRequest("Missing projectId in path")]
    ELSE IF Falsy(researcherEmail)
    THEN [table |-> table, response |-> badRequest("Missing researcherId in path")]
    ELSE [table |-> DeleteItem(table, <<projectId, researcherEmail>>),
          response |-> [statusCode |-> 200, body |-> [message |-> "removed"]]]

\* getNextProjectId: its UpdateCommand names the key { projectId: "COUNTER" }
\* without the sort key, which the table refuses; the function rethrows and
\* the handler's catch answers 500
GetNextProjectIdFails ==
    [statusCode |-> 500, body |-> [message |-> "Internal server error"]]

\* the projectResearcher handler
ProjectHandler(table, method, projectId, researcherId, body) ==
    LET parsed == ParseBody(body)
        bodyObj == IF body = NoBody THEN EmptyObj ELSE parsed.value
    IN  IF body # NoBody /\ ~parsed.ok
        THEN [table |-> table, response |-> badRequest("Invalid JSON body")]
        ELSE IF method = "GET" THEN HandleGetResearchers(table, projectId)
        ELSE IF method = "POST"
        THEN IF Falsy(projectId)
             THEN [table |-> table, response |-> GetNextProjectIdFails]
             ELSE HandleAddResearcher(table, projectId, Attr(bodyObj, "email"),
                                      Attr(bodyObj, "name"))
        ELSE IF method = "DELETE"
        THEN HandleRemoveResearcher(table, projectId, researcherId)
        ELSE [table |-> table, response |-> badRequest("Unsupported method")]

\* requests to the projectResearcher routes
ProjectRequests ==
    {[method |-> "POST", projectId |-> pr, researcherId |-> Undefined,
      body |-> JsonBody([email |-> e, name |-> n])] :
        pr \in {"p1", "p2"}, e \in {"a@x", "b@x"}, n \in {"Ann", "Bob"}}
    \cup {[method |-> "POST", projectId |-> "p1", researcherId |-> Undefined,
           body |-> b] :
            b \in {JsonBody([name |-> "Ann"]), JsonBody([email |-> "a@x"]),
                   BadBody, NoBody}}
    \cup {[method |-> "POST", projectId |-> Undefined, researcherId |-> Undefined,
           body |-> JsonBody([email |-> "a@x", name |-> "Ann"])]}
    \cup {[method |-> "GET", projectId |-> pr, researcherId |-> Undefined,
           body |-> NoBody] : pr \in {"p1", "p2", Undefined}}
    \cup {[method |-> "DELETE", projectId |-> q[1], researcherId |-> q[2],
           body |-> NoBody] :
            q \in {<<"p1", "a@x">>, <<"p2", "b@x">>, <<"p1", Undefined>>,
                   <<Undefined, "a@x">>}}
    \cup {[method |-> "PATCH", projectId |-> "p1", researcherId |-> Undefined,
           body |-> NoBody]}

\* ------------------------------------------------------------------ state
VARIABLES
    groups,          \* the Groups table
    allDbQuestions,  \* surveyApi's process-wide cache of the flattened catalog
    responses,       \* the Responses table
    resp,            \* the request last handled and its response
    allocated,       \* history: the ids getNextGroupId returned, in order
    emptied,         \* history: groupIds whose row a delete of the last
                     \* question removed, and that no save has written since
    e2e,             \* history: a save without groupId of a one-question
                     \* group, followed only by /fixed-questions and /ask
    rated,           \* history, per Responses key: the first rating accepted,
                     \* whether all accepted ratings equal it, how many were
                     \* accepted, and the first text the catalog resolved
    surveyStatus,    \* the SurveyStatus table
    isSurveyOpen,    \* per dashboard: its isSurveyOpen state
    inFlight,        \* per dashboard: toggle responses not yet received
    lastSet,         \* history: the isOpen of the last POST that succeeded
    lastToggle,      \* history, per dashboard: its previous toggle
    surveyCounter,   \* the SurveyCounter table
    calls,           \* per invocation of the increment route: its position
    rateCalls,       \* per invocation of handleRate in flight: its position
    projects,        \* the Projects table, keyed by <<projectId, id>>
    groupCalls,      \* per invocation of GroupConfigLambda in flight: its
                     \* position and what it has read
    apiCalls,        \* per invocation of surveyApi in flight in the process:
                     \* its position and the result of its Scan
    cacheScan,       \* history: the Scan result allDbQuestions was last
                     \* assigned from
    settings,        \* the GroupSettings page: its questions state
    participant,     \* per participant: the state of their SimulatedAIPage
                     \* and its handleSelectQuestion calls in flight
    ratedFor         \* history, per Responses key: the question texts the
                     \* participants had selected when their rating was stored

storeVars == <<groups, allDbQuestions, responses, allocated, emptied, e2e, rated>>
gateVars == <<surveyStatus, isSurveyOpen, inFlight, lastSet, lastToggle>>
counterVars == <<surveyCounter, calls>>
catalogVars == <<apiCalls, cacheScan>>
pageVars == <<settings, participant, ratedFor>>
flightVars == <<rateCalls, groupCalls, catalogVars, pageVars>>
projectVars == <<projects>>
vars == <<storeVars, resp, gateVars, counterVars, flightVars, projectVars>>

NoScenario == [stage |-> 0]
NoToggle == [n |-> 0]
NoSet == [n |-> 0]
Idle == [pc |-> "idle"]
NoScan == [table |-> EmptyTable, order |-> <<>>]

Init ==
    /\ surveyStatus = EmptyTable
    /\ isSurveyOpen = [d \in Dashboards |-> JsNull]
    /\ inFlight = [d \in Dashboards |-> <<>>]
    /\ lastSet = NoSet
    /\ lastToggle = [d \in Dashboards |-> NoToggle]
    /\ surveyCounter = EmptyTable
    /\ calls = [c \in Calls |-> Idle]
    /\ rateCalls = [c \in RateCalls |-> Idle]
    /\ groupCalls = [c \in GroupCalls |-> Idle]
    /\ apiCalls = [c \in ApiCalls |-> Idle]
    /\ cacheScan = NoScan
    /\ settings = [questions |-> <<>>]
    /\ participant = [p \in Participants |-> PageMounted]
    /\ ratedFor = EmptyTable
    /\ projects = EmptyTable
    /\ groups = EmptyTable
    /\ allDbQuestions = <<>>
    /\ responses = EmptyTable
    /\ rated = EmptyTable
    /\ resp = [op |-> "none"]
    /\ allocated = <<>>
    /\ emptied = {}
    /\ e2e = NoScenario

\* the surveyApi process started over a Groups table that holds rows written
\* by saves and rows written by other means
InitScan ==
    /\ groups \in ScanTables
    /\ allDbQuestions = <<>>
    /\ responses = EmptyTable
    /\ rated = EmptyTable
    /\ resp = [op |-> "none"]
    /\ allocated = <<>>
    /\ emptied = {}
    /\ e2e = NoScenario
    /\ surveyStatus = EmptyTable
    /\ isSurveyOpen = [d \in Dashboards |-> JsNull]
    /\ inFlight = [d \in Dashboards |-> <<>>]
    /\ lastSet = NoSet
    /\ lastToggle = [d \in Dashboards |-> NoToggle]
    /\ surveyCounter = EmptyTable
    /\ calls = [c \in Calls |-> Idle]
    /\ rateCalls = [c \in RateCalls |-> Idle]
    /\ groupCalls = [c \in GroupCalls |-> Idle]
    /\ apiCalls = [c \in ApiCalls |-> Idle]
    /\ cacheScan = NoScan
    /\ settings = [questions |-> <<>>]
    /\ participant = [p \in Participants |-> PageMounted]
    /\ ratedFor = EmptyTable
    /\ projects = EmptyTable

\* ---------------------------------------------------------------- actions
PutGroupConfig(groupId, body) ==
    LET r == HandlePut(groups, groupId, body)
        ok == r.response.statusCode = 200
        newGroupId == IF NeedsNewId(groupId)
                      THEN ToString(GetNextGroupId(groups).id) ELSE groupId
    IN  /\ NeedsNewId(groupId) => Len(allocated) < MaxAlloc
        /\ groups' = r.table
        /\ allocated' = IF NeedsNewId(groupId)
                        THEN Append(allocated, GetNextGroupId(groups).id)
                        ELSE allocated
        /\ emptied' = IF ok THEN emptied \ {r.response.groupId} ELSE emptied
        /\ resp' = [op |-> "save", groupId |-> groupId, body |-> body,
                    replaced |-> GetItem(groups, newGroupId), response |-> r.response]
        /\ e2e' = IF ok /\ NeedsNewId(groupId) /\ Len(QuestionsOf(body.json)) = 1
                  THEN [stage |-> 1, groupId |-> r.response.groupId,
                        q |-> body.json.questions[1]]
                  ELSE NoScenario
        /\ UNCHANGED <<allDbQuestions, responses, rated, gateVars, counterVars,
                    flightVars, projectVars>>

GetGroup(groupId) ==
    /\ resp' = [op |-> "get", groupId |-> groupId,
                response |-> GetGroupConfig(groups, groupId)]
    /\ e2e' = NoScenario
    /\ UNCHANGED <<groups, allDbQuestions, responses, allocated, emptied, rated,
                   gateVars, counterVars, flightVars, projectVars>>

GetAllGroups ==
    \E order \in Orders(DOMAIN groups) :
        /\ resp' = [op |-> "getAll", response |-> GetAllGroupConfigs(groups, order)]
        /\ e2e' = NoScenario
        /\ UNCHANGED <<groups, allDbQuestions, responses, allocated, emptied, rated,
                   gateVars, counterVars, flightVars, projectVars>>

DeleteQuestion(groupId, body) ==
    LET r == HandleDelete(groups, groupId, body)
        gone == r.response.statusCode = 200 /\ ~HasItem(r.table, groupId)
    IN  /\ groups' = r.table
        /\ emptied' = IF gone THEN emptied \cup {groupId} ELSE emptied
        /\ resp' = [op |-> "delete", groupId |-> groupId, body |-> body,
                    response |-> r.response]
        /\ e2e' = NoScenario
        /\ UNCHANGED <<allDbQuestions, responses, allocated, rated, gateVars, counterVars,
                    flightVars, projectVars>>

\* GET /fixed-questions
FixedQuestions ==
    \E order \in Orders(DOMAIN groups) :
        LET r == GetQuestionsAllRows(groups, order)
        IN  /\ allDbQuestions' = r.cache
            /\ resp' = [op |-> "fixed-questions", rebuilt |-> TRUE, order |-> order,
                        response |-> [statusCode |-> 200, list |-> r.list]]
            /\ e2e' = IF e2e.stage = 0 THEN e2e ELSE [e2e EXCEPT !.stage = 2]
            /\ UNCHANGED <<groups, responses, allocated, emptied, rated, gateVars, counterVars,
                    flightVars, projectVars>>

\* POST /ask
Ask(questionId, phase) ==
    \E order \in IF Len(allDbQuestions) = 0 /\ Truthy(questionId)
                 THEN Orders(DOMAIN groups) ELSE {<<>>} :
        LET r == HandleAsk(allDbQuestions, groups, order, questionId, phase)
        IN  /\ allDbQuestions' = r.cache
            /\ resp' = [op |-> "ask", questionId |-> questionId, phase |-> phase,
                        rebuilt |-> r.rebuilt,
                        order |-> IF r.rebuilt THEN order ELSE <<>>,
                        waitedMs |-> r.waitedMs,
                        response |-> [statusCode |-> 200, body |-> r.body]]
            /\ e2e' = IF e2e.stage = 2 THEN e2e ELSE NoScenario
            /\ UNCHANGED <<groups, responses, allocated, emptied, rated, gateVars, counterVars,
                    flightVars, projectVars>>

\* a cold start of the surveyApi process: the module is loaded again
ColdStart ==
    /\ allDbQuestions' = <<>>
    /\ resp' = [op |-> "coldStart"]
    /\ e2e' = NoScenario
    /\ UNCHANGED <<groups, responses, allocated, emptied, rated, gateVars, counterVars,
                    flightVars, projectVars>>

RECURSIVE TotalAccepted(_, _)
TotalAccepted(log, keys) ==
    IF keys = {} THEN 0
    ELSE LET k == CHOOSE x \in keys : TRUE
         IN  log[k].count + TotalAccepted(log, keys \ {k})

\* POST /rate
Rate(questionId, rating) ==
    LET r == HandleRate(responses, allDbQuestions, questionId, rating)
        accepted == r.body.message = "Rating stored"
        key == ToStr(questionId)
        text == ResolveText(allDbQuestions, questionId)
        old == IF key \in DOMAIN rated THEN rated[key]
               ELSE [rating |-> ToNumber(rating), same |-> TRUE, count |-> 0,
                     text |-> ""]
    IN  /\ accepted => TotalAccepted(rated, DOMAIN rated) < MaxSubmits
        /\ responses' = r.table
        /\ rated' = IF accepted
                    THEN PutItem(rated, key,
                            [rating |-> old.rating,
                             same |-> old.same /\ old.rating = ToNumber(rating),
                             count |-> old.count + 1,
                             text |-> IF old.text = "" THEN text ELSE old.text])
                    ELSE rated
        /\ resp' = [op |-> "rate", questionId |-> questionId, rating |-> rating,
                    response |-> [statusCode |-> 200, body |-> r.body]]
        /\ e2e' = NoScenario
        /\ UNCHANGED <<groups, allDbQuestions, allocated, emptied, gateVars, counterVars,
                    flightVars, projectVars>>

\* GET /ratings
GetRatings ==
    \E order \in Orders(DOMAIN responses) :
        /\ resp' = [op |-> "ratings",
                    response |-> [statusCode |-> 200,
                                  body |-> GetAllRatings(responses, order)]]
        /\ e2e' = NoScenario
        /\ UNCHANGED <<groups, allDbQuestions, responses, allocated, emptied, rated,
                   gateVars, counterVars, flightVars, projectVars>>

\* another writer has set the gate since the toggle was made
Spoil(t) == IF t.n = 0 THEN t ELSE [t EXCEPT !.alone = FALSE]

\* a request to /survey-status from any client
SurveyStatusRequest(method, body) ==
    LET r == SurveyStatusHandler(surveyStatus, method, body)
        wrote == method = "POST" /\ r.response.statusCode = 200
    IN  /\ surveyStatus' = r.table
        /\ lastSet' = IF wrote THEN [n |-> 1, isOpen |-> body.json.isOpen]
                      ELSE lastSet
        /\ lastToggle' = IF wrote
                         THEN [d \in Dashboards |-> Spoil(lastToggle[d])]
                         ELSE lastToggle
        /\ resp' = [op |-> "status", method |-> method, body |-> body,
                    response |-> r.response]
        /\ UNCHANGED <<isSurveyOpen, inFlight, storeVars, counterVars,
                    flightVars, projectVars>>

\* a Dashboard is mounted: isSurveyOpen starts null and takes the isOpen of
\* GET /survey-status; responses to an earlier page's toggles are dropped
DashboardLoad(d) ==
    LET r == SurveyStatusHandler(surveyStatus, "GET", NoBody)
    IN  /\ isSurveyOpen' = [isSurveyOpen EXCEPT ![d] = JsBool(r.response.body.isOpen)]
        /\ inFlight' = [inFlight EXCEPT ![d] = <<>>]
        /\ lastToggle' = [lastToggle EXCEPT ![d] = NoToggle]
        /\ resp' = [op |-> "status", method |-> "GET", body |-> NoBody,
                    response |-> r.response]
        /\ UNCHANGED <<surveyStatus, lastSet, storeVars, counterVars,
                    flightVars, projectVars>>

\* toggleSurvey up to the handling of its POST: the button is rendered once
\* isSurveyOpen is not null, and posts the negation of the local state
ToggleSurvey(d) ==
    LET body == ToggleBody(isSurveyOpen[d])
        r == SurveyStatusHandler(surveyStatus, "POST", body)
        ok == r.response.statusCode = 200
    IN  /\ isSurveyOpen[d] # JsNull
        /\ Len(inFlight[d]) < MaxInFlight
        /\ surveyStatus' = r.table
        /\ inFlight' = [inFlight EXCEPT ![d] = Append(@, r.response)]
        /\ lastSet' = IF ok THEN [n |-> 1, isOpen |-> body.json.isOpen]
                      ELSE lastSet
        /\ lastToggle' =
              [x \in Dashboards |->
                  IF x = d
                  THEN [n |-> 1,
                        shown |-> isSurveyOpen[d].b,
                        stored |-> StatusGet(surveyStatus).body.isOpen,
                        alone |-> TRUE,
                        settled |-> inFlight[d] = <<>>]
                  ELSE IF ok THEN Spoil(lastToggle[x]) ELSE lastToggle[x]]
        /\ resp' = [op |-> "toggle", dashboard |-> d, response |-> r.response,
                    first |-> lastToggle[d], settled |-> inFlight[d] = <<>>]
        /\ UNCHANGED <<isSurveyOpen, storeVars, counterVars,
                    flightVars, projectVars>>

\* toggleSurvey from the arrival of a response: setIsSurveyOpen(data.isOpen)
\* when res.ok, an alert and no change otherwise
ToggleResponse(d, i) ==
    /\ i \in 1..Len(inFlight[d])
    /\ isSurveyOpen' =
          [isSurveyOpen EXCEPT
              ![d] = IF inFlight[d][i].statusCode = 200
                     THEN JsBool(inFlight[d][i].body.isOpen) ELSE @]
    /\ inFlight' = [inFlight EXCEPT
                       ![d] = SubSeq(@, 1, i - 1) \o SubSeq(@, i + 1, Len(@))]
    /\ UNCHANGED <<surveyStatus, lastSet, lastToggle, resp, storeVars, counterVars,
                    flightVars, projectVars>>

\* POST /incrementSurveyCounter, first step of invocation c: the UpdateItem
IncrementUpdate(c) ==
    LET r == IncrementCount(surveyCounter)
    IN  /\ calls[c].pc = "idle"
        /\ surveyCounter' = r.table
        /\ calls' = [calls EXCEPT ![c] = [pc |-> "updated", newCount |-> r.newCount]]
        /\ UNCHANGED <<resp, storeVars, gateVars, flightVars, projectVars>>

\* second step of invocation c: the optional publish and the response
IncrementReturn(c, publish) ==
    /\ calls[c].pc = "updated"
    /\ calls' = [calls EXCEPT
                    ![c] = [pc |-> "done", newCount |-> @.newCount,
                            response |-> IncrementResponse(@.newCount, publish)]]
    /\ resp' = [op |-> "increment", call |-> c,
                response |-> IncrementResponse(calls[c].newCount, publish)]
    /\ UNCHANGED <<surveyCounter, storeVars, gateVars,
                    flightVars, projectVars>>

\* GET /getSurveyCounter
ReadCounter ==
    /\ resp' = [op |-> "getSurveyCounter",
                response |-> GetSurveyCounter(surveyCounter)]
    /\ UNCHANGED <<surveyCounter, calls, storeVars, gateVars,
                    flightVars, projectVars>>

\* a request the counter handler has no route for
CounterOther ==
    /\ resp' = [op |-> "counterOther", response |-> CounterNotFound]
    /\ UNCHANGED <<surveyCounter, calls, storeVars, gateVars,
                    flightVars, projectVars>>

\* POST /rate, invocation c up to the await of its UpdateCommand; an invalid
\* body is answered at once
RateAdd(c, questionId, rating) ==
    LET r == FirstUpdate(responses, questionId, rating)
    IN  /\ rateCalls[c].pc = "idle"
        /\ responses' = r.table
        /\ rateCalls' =
              [rateCalls EXCEPT
                  ![c] = IF r.valid
                         THEN [pc |-> "added", questionId |-> questionId,
                               rating |-> rating, body |-> r.body]
                         ELSE [pc |-> "done", questionId |-> questionId,
                               rating |-> rating, body |-> r.body,
                               resolved |-> ""]]
        /\ resp' = IF r.valid THEN resp
                   ELSE [op |-> "rate", questionId |-> questionId,
                         rating |-> rating,
                         response |-> [statusCode |-> 200, body |-> r.body]]
        /\ UNCHANGED <<groups, allDbQuestions, allocated, emptied, e2e, rated,
                       gateVars, counterVars, projectVars, groupCalls,
                   catalogVars,
                   pageVars>>

\* invocation c from the return of its UpdateCommand: the back-fill of the
\* question text and the response
RateBackfill(c) ==
    /\ rateCalls[c].pc = "added"
    /\ responses' = BackfillQuestion(responses, allDbQuestions, rateCalls[c].questionId)
    /\ rateCalls' =
          [rateCalls EXCEPT
              ![c] = [pc |-> "done", questionId |-> @.questionId,
                      rating |-> @.rating, body |-> @.body,
                      resolved |-> ResolveText(allDbQuestions, @.questionId)]]
    /\ resp' = [op |-> "rate", questionId |-> rateCalls[c].questionId,
                rating |-> rateCalls[c].rating,
                response |-> [statusCode |-> 200, body |-> rateCalls[c].body]]
    /\ UNCHANGED <<groups, allDbQuestions, allocated, emptied, e2e, rated,
                   gateVars, counterVars, projectVars, groupCalls,
                   catalogVars,
                   pageVars>>

\* POST/PUT, invocation c up to the await of the PutCommand: the id is
\* allocated when the path gives none
SaveBegin(c, groupId, body) ==
    LET alloc == GetNextGroupId(groups)
        newGroupId == IF NeedsNewId(groupId) THEN ToString(alloc.id) ELSE groupId
    IN  /\ groupCalls[c].pc = "idle"
        /\ NeedsNewId(groupId) => Len(allocated) < MaxAlloc
        /\ groups' = IF NeedsNewId(groupId) THEN alloc.table ELSE groups
        /\ allocated' = IF NeedsNewId(groupId) THEN Append(allocated, alloc.id)
                        ELSE allocated
        /\ groupCalls' =
              [groupCalls EXCEPT
                  ![c] = [pc |-> "saving", groupId |-> newGroupId, body |-> body,
                          overlaps |-> \E d \in GroupCalls \ {c} :
                                          /\ groupCalls[d].pc \in {"saving", "read"}
                                          /\ groupCalls[d].groupId = newGroupId]]
        /\ UNCHANGED <<allDbQuestions, responses, emptied, e2e, rated, resp,
                       gateVars, counterVars, projectVars, rateCalls,
                   catalogVars,
                   pageVars>>

\* invocation c's saveGroupConfig: the parse and the PutCommand; savedSince
\* is history: the questions of the last save that completed on a group
\* between a delete's read and its write
SavePut(c) ==
    LET r == SaveGroupConfig(groups, groupCalls[c].groupId, groupCalls[c].body)
    IN  /\ groupCalls[c].pc = "saving"
        /\ groups' = r.table
        /\ groupCalls' =
              [d \in GroupCalls |->
                  IF d = c
                  THEN [pc |-> "saved", groupId |-> groupCalls[c].groupId,
                        body |-> groupCalls[c].body,
                        overlaps |-> groupCalls[c].overlaps,
                        response |-> r.response]
                  ELSE IF /\ groupCalls[d].pc = "read"
                          /\ groupCalls[d].groupId = groupCalls[c].groupId
                          /\ r.response.statusCode = 200
                       THEN [groupCalls[d] EXCEPT
                                !.savedSince =
                                    <<QuestionsOf(groupCalls[c].body.json)>>]
                       ELSE groupCalls[d]]
        /\ UNCHANGED <<allDbQuestions, responses, allocated, emptied, e2e, rated,
                       resp, gateVars, counterVars, projectVars, rateCalls,
                   catalogVars,
                   pageVars>>

\* DELETE, invocation c up to the await of the GetCommand; a missing body or
\* questionText is answered at once
DeleteRead(c, groupId, body) ==
    LET parsed == ParseBody(body)
        text == Attr(parsed.value, "questionText")
        thrown == body = NoBody \/ ~parsed.ok \/ text = Undefined \/ text = ""
    IN  /\ groupCalls[c].pc = "idle"
        /\ groupCalls' =
              [groupCalls EXCEPT
                  ![c] = IF thrown
                         THEN [pc |-> "deleted", groupId |-> groupId,
                               questionText |-> "", response |-> ServerError,
                               savedSince |-> <<>>]
                         ELSE [pc |-> "read", groupId |-> groupId,
                               questionText |-> text,
                               found |-> HasItem(groups, groupId),
                               item |-> GetItem(groups, groupId),
                               savedSince |-> <<>>]]
        /\ UNCHANGED <<storeVars, resp, gateVars, counterVars, projectVars,
                       rateCalls,
                   catalogVars,
                   pageVars>>

\* invocation c's deleteQuestionFromGroup from the return of its GetCommand
DeleteWrite(c) ==
    LET call == groupCalls[c]
        r == DeleteAfterRead(groups, call.groupId, call.found, call.item,
                             call.questionText)
    IN  /\ call.pc = "read"
        /\ groups' = r.table
        /\ groupCalls' =
              [groupCalls EXCEPT
                  ![c] = [pc |-> "deleted", groupId |-> call.groupId,
                          questionText |-> call.questionText,
                          response |-> r.response,
                          savedSince |-> call.savedSince]]
        /\ UNCHANGED <<allDbQuestions, responses, allocated, emptied, e2e, rated,
                       resp, gateVars, counterVars, projectVars, rateCalls,
                   catalogVars,
                   pageVars>>

\* invocation c has answered; its slot serves the next request
GroupCallReturn(c) ==
    /\ groupCalls[c].pc \in {"saved", "deleted"}
    /\ groupCalls' = [groupCalls EXCEPT ![c] = Idle]
    /\ UNCHANGED <<storeVars, resp, gateVars, counterVars, projectVars, rateCalls,
                   catalogVars,
                   pageVars>>

\* GET /fixed-questions, invocation c up to the await of the ScanCommand
FixedScan(c) ==
    \E order \in Orders(DOMAIN groups) :
        /\ apiCalls[c].pc = "idle"
        /\ apiCalls' = [apiCalls EXCEPT
                           ![c] = [pc |-> "scanned", route |-> "fixed-questions",
                                   questionId |-> JsUndefined, phase |-> Undefined,
                                   table |-> groups, order |-> order]]
        /\ UNCHANGED <<storeVars, resp, gateVars, counterVars, projectVars,
                       rateCalls, groupCalls, cacheScan,
                   pageVars>>

\* POST /ask, invocation c: answered from allDbQuestions when it is not
\* empty (or when questionId is missing), else up to the await of the
\* ScanCommand of getQuestionsAllRows
AskLookup(c, questionId, phase) ==
    \E order \in Orders(DOMAIN groups) :
        LET scans == Truthy(questionId) /\ Len(allDbQuestions) = 0
            r == HandleAsk(allDbQuestions, groups, <<>>, questionId, phase)
        IN  /\ apiCalls[c].pc = "idle"
            /\ ~scans => order = CHOOSE o \in Orders(DOMAIN groups) : TRUE
            /\ apiCalls' =
                  [apiCalls EXCEPT
                      ![c] = IF scans
                             THEN [pc |-> "scanned", route |-> "ask",
                                   questionId |-> questionId, phase |-> phase,
                                   table |-> groups, order |-> order]
                             ELSE [pc |-> "answered", route |-> "ask",
                                   rebuilt |-> FALSE, body |-> r.body]]
            /\ UNCHANGED <<storeVars, resp, gateVars, counterVars, projectVars,
                           rateCalls, groupCalls, cacheScan,
                   pageVars>>

\* invocation c from the return of its ScanCommand: the loop over the rows,
\* allDbQuestions = flat, and the rest of the handler
CatalogAssign(c) ==
    LET call == apiCalls[c]
        r == GetQuestionsAllRows(call.table, call.order)
        a == HandleAsk(<<>>, call.table, call.order, call.questionId, call.phase)
    IN  /\ call.pc = "scanned"
        /\ allDbQuestions' = r.cache
        /\ cacheScan' = [table |-> call.table, order |-> call.order]
        /\ apiCalls' =
              [apiCalls EXCEPT
                  ![c] = [pc |-> "answered", route |-> call.route,
                          rebuilt |-> TRUE,
                          body |-> IF call.route = "ask" THEN a.body
                                   ELSE [list |-> r.list]]]
        /\ UNCHANGED <<groups, responses, allocated, emptied, e2e, rated, resp,
                       gateVars, counterVars, projectVars, rateCalls, groupCalls,
                   pageVars>>

\* invocation c has answered; its slot serves the next request
ApiCallReturn(c) ==
    /\ apiCalls[c].pc = "answered"
    /\ apiCalls' = [apiCalls EXCEPT ![c] = Idle]
    /\ UNCHANGED <<storeVars, resp, gateVars, counterVars, projectVars,
                   rateCalls, groupCalls, cacheScan,
                   pageVars>>

\* the GroupSettings page is opened: fetchSettings
LoadSettings ==
    \E order \in Orders(DOMAIN groups) :
        /\ settings' = [questions |-> FetchSettings(groups, order)]
        /\ resp' = [op |-> "loadSettings", order |-> order]
        /\ UNCHANGED <<storeVars, gateVars, counterVars, projectVars, rateCalls,
                       groupCalls, catalogVars, participant, ratedFor>>

\* Save Settings is pressed: handleSubmit
SaveSettings ==
    /\ groups' = HandleSubmit(groups, settings.questions)
    /\ resp' = [op |-> "saveSettings", sent |-> Len(settings.questions)]
    /\ UNCHANGED <<allDbQuestions, responses, allocated, emptied, e2e, rated,
                   gateVars, counterVars, projectVars, rateCalls, groupCalls,
                   catalogVars, settings, participant, ratedFor>>

\* the page is opened or reloaded: the component mounts with its initial
\* state, and what an earlier mount had in flight reaches nothing
Mount(p) ==
    /\ participant' = [participant EXCEPT ![p] = PageMounted]
    /\ UNCHANGED <<storeVars, resp, gateVars, counterVars, projectVars,
                   rateCalls, groupCalls, catalogVars, settings, ratedFor>>

\* checkSurveyStatus: setIsSurveyOpen(data.isOpen)
CheckSurveyStatus(p) ==
    LET r == SurveyStatusHandler(surveyStatus, "GET", NoBody)
    IN  /\ "checkSurveyStatus" \in participant[p].effects
        /\ participant' = [participant EXCEPT
                              ![p].isSurveyOpen = JsBool(r.response.body.isOpen),
                              ![p].effects = @ \ {"checkSurveyStatus"}]
        /\ UNCHANGED <<storeVars, resp, gateVars, counterVars, projectVars,
                       rateCalls, groupCalls, catalogVars, settings, ratedFor>>

\* loadQuestions: GET /fixed-questions and setQuestions(data)
LoadQuestions(p) ==
    \E order \in Orders(DOMAIN groups) :
        LET r == GetQuestionsAllRows(groups, order)
        IN  /\ "loadQuestions" \in participant[p].effects
            /\ allDbQuestions' = r.cache
            /\ participant' = [participant EXCEPT
                                  ![p].questions = r.list,
                                  ![p].effects = @ \ {"loadQuestions"}]
            /\ UNCHANGED <<groups, responses, allocated, emptied, e2e, rated, resp,
                           gateVars, counterVars, projectVars, rateCalls,
                           groupCalls, catalogVars, settings, ratedFor>>

\* a question button is clicked: handleSelectQuestion up to its first fetch
SelectQuestion(p, i) ==
    /\ Rendered(participant[p])
    /\ i \in DOMAIN participant[p].questions
    /\ Len(participant[p].asks) < MaxPending
    /\ participant' = [participant EXCEPT
                          ![p] = SelectedPage(@, participant[p].questions[i])]
    /\ UNCHANGED <<storeVars, resp, gateVars, counterVars, projectVars,
                   rateCalls, groupCalls, catalogVars, settings, ratedFor>>

\* POST /ask of the i-th handleSelectQuestion in flight is handled and its
\* answer reaches the page
AskAnswered(p, i) ==
    \E order \in IF Len(allDbQuestions) = 0 THEN Orders(DOMAIN groups) ELSE {<<>>} :
        /\ i \in DOMAIN participant[p].asks
        /\ LET ask == participant[p].asks[i]
               r == HandleAsk(allDbQuestions, groups, order, JsNum(ask.q.id), ask.phase)
           IN  /\ allDbQuestions' = r.cache
               /\ participant' = [participant EXCEPT ![p] = AnswerShown(@, i, r.body)]
        /\ UNCHANGED <<groups, responses, allocated, emptied, e2e, rated, resp,
                       gateVars, counterVars, projectVars, rateCalls,
                       groupCalls, catalogVars, settings, ratedFor>>

\* a star is clicked: setRating(i)
SetRating(p, i) ==
    /\ Rendered(participant[p])
    /\ participant[p].selectedQuestion # NoSelection
    /\ participant' = [participant EXCEPT ![p].rating = i]
    /\ UNCHANGED <<storeVars, resp, gateVars, counterVars, projectVars,
                   rateCalls, groupCalls, catalogVars, settings, ratedFor>>

\* Submit Rating is clicked: the page's handleRate and the POST /rate it sends
SubmitRating(p) ==
    LET page == participant[p]
        questionId == JsNum(page.selectedQuestion.id)
        r == HandleRate(responses, allDbQuestions, questionId, JsNum(page.rating))
        accepted == r.body.message = "Rating stored"
        key == ToStr(questionId)
        text == ResolveText(allDbQuestions, questionId)
        old == IF key \in DOMAIN rated THEN rated[key]
               ELSE [rating |-> JsNum(page.rating), same |-> TRUE, count |-> 0,
                     text |-> ""]
    IN  /\ Rendered(page)
        /\ page.selectedQuestion # NoSelection
        /\ accepted => TotalAccepted(rated, DOMAIN rated) < MaxSubmits
        /\ responses' = r.table
        /\ rated' = IF accepted
                    THEN PutItem(rated, key,
                            [rating |-> old.rating,
                             same |-> old.same /\ old.rating = JsNum(page.rating),
                             count |-> old.count + 1,
                             text |-> IF old.text = "" THEN text ELSE old.text])
                    ELSE rated
        /\ ratedFor' = IF accepted
                       THEN PutItem(ratedFor, key,
                               (IF key \in DOMAIN ratedFor THEN ratedFor[key] ELSE {})
                                   \cup {page.selectedQuestion.question})
                       ELSE ratedFor
        /\ resp' = [op |-> "rate", questionId |-> questionId,
                    rating |-> JsNum(page.rating),
                    response |-> [statusCode |-> 200, body |-> r.body]]
        /\ UNCHANGED <<groups, allDbQuestions, allocated, emptied, e2e, gateVars,
                       counterVars, projectVars, rateCalls, groupCalls,
                       catalogVars, settings, participant>>

\* Finished is clicked: handleFinish and the POST /incrementSurveyCounter it
\* sends
HandleFinish(p) ==
    /\ Rendered(participant[p])
    /\ ~participant[p].showThankYouPopup
    /\ GetSurveyCounter(surveyCounter).body.count < MaxCalls
    /\ surveyCounter' = IncrementCount(surveyCounter).table
    /\ participant' = [participant EXCEPT ![p].showThankYouPopup = TRUE]
    /\ resp' = [op |-> "finish",
                response |-> IncrementResponse(IncrementCount(surveyCounter).newCount,
                                               "skipped")]
    /\ UNCHANGED <<storeVars, gateVars, calls, projectVars, rateCalls, groupCalls,
                   catalogVars, settings, ratedFor>>

\* a request to the projectResearcher handler
ProjectRequest(method, projectId, researcherId, body) ==
    LET r == ProjectHandler(projects, method, projectId, researcherId, body)
    IN  /\ projects' = r.table
        /\ resp' = [op |-> "project", method |-> method, projectId |-> projectId,
                    researcherId |-> researcherId, body |-> body,
                    response |-> r.response]
        /\ UNCHANGED <<storeVars, gateVars, counterVars, flightVars>>

Next ==
    \/ \E g \in PathIds, b \in SaveBodies : PutGroupConfig(g, b)
    \/ \E g \in PathIds \ {Undefined} : GetGroup(g)
    \/ GetAllGroups
    \/ \E g \in PathIds \ {Undefined}, b \in DeleteBodies : DeleteQuestion(g, b)

Spec == Init /\ [][Next]_vars

\* the catalog and the answer simulation over the groups researchers save
\* and edit
AllocatedIds == {ToString(n) : n \in 1..MaxAlloc}
NextCatalog ==
    \/ \E b \in CatalogBodies : PutGroupConfig("undefined", b)
    \/ \E g \in AllocatedIds :
            DeleteQuestion(g, JsonBody([questionText |-> "q1"]))
    \/ FixedQuestions
    \/ \E a \in AskRequests : Ask(a.questionId, a.phase)
    \/ ColdStart

SpecCatalog == Init /\ [][NextCatalog]_vars

\* ratings against a catalog whose group is rewritten between rebuilds
NextRate ==
    \/ \E b \in RateBodies : PutGroupConfig("1", b)
    \/ FixedQuestions
    \/ ColdStart
    \/ \E a \in RateRequests : Rate(a.questionId, a.rating)
    \/ GetRatings

SpecRate == Init /\ [][NextRate]_vars

\* overlapping invocations of POST /rate against a catalog whose group is
\* rewritten and whose cache is rebuilt or lost between their steps
NextRateSteps ==
    \/ \E b \in RateBodies : PutGroupConfig("1", b)
    \/ FixedQuestions
    \/ ColdStart
    \/ \E c \in RateCalls, a \in StepRequests : RateAdd(c, a.questionId, a.rating)
    \/ \E c \in RateCalls : RateBackfill(c)

SpecRateSteps == Init /\ [][NextRateSteps]_vars

\* the survey status gate with two dashboards and other clients of the route
NextGate ==
    \/ \E q \in StatusRequests : SurveyStatusRequest(q.method, q.body)
    \/ \E d \in Dashboards : DashboardLoad(d)
    \/ \E d \in Dashboards : ToggleSurvey(d)
    \/ \E d \in Dashboards, i \in 1..MaxInFlight : ToggleResponse(d, i)

SpecGate == Init /\ [][NextGate]_vars

\* concurrent invocations of the increment route, with reads of the counter
NextCounter ==
    \/ \E c \in Calls : IncrementUpdate(c)
    \/ \E c \in Calls, o \in PublishOutcomes : IncrementReturn(c, o)
    \/ ReadCounter
    \/ CounterOther

SpecCounter == Init /\ [][NextCounter]_vars

\* researchers added to, listed in and removed from projects
NextProject ==
    \E q \in ProjectRequests :
        ProjectRequest(q.method, q.projectId, q.researcherId, q.body)

SpecProject == Init /\ [][NextProject]_vars

\* catalog rebuilds and asks over the rows a Scan finds
NextScan ==
    \/ FixedQuestions
    \/ \E a \in AskRequests : Ask(a.questionId, a.phase)
    \/ ColdStart

SpecScan == InitScan /\ [][NextScan]_vars

\* saves to GroupConfigLambda that overlap
NextSaves ==
    \/ \E c \in GroupCalls, g \in StepIds, b \in StepSaveBodies : SaveBegin(c, g, b)
    \/ \E c \in GroupCalls : SavePut(c)
    \/ \E c \in GroupCalls : GroupCallReturn(c)

SpecSaves == Init /\ [][NextSaves]_vars

\* saves and deletes of GroupConfigLambda that overlap
NextEdits ==
    \/ \E c \in GroupCalls, b \in StepSaveBodies : SaveBegin(c, "1", b)
    \/ \E c \in GroupCalls : SavePut(c)
    \/ \E c \in GroupCalls, b \in StepDeleteBodies : DeleteRead(c, "1", b)
    \/ \E c \in GroupCalls : DeleteWrite(c)
    \/ \E c \in GroupCalls : GroupCallReturn(c)

SpecEdits == Init /\ [][NextEdits]_vars

\* one surveyApi process with rebuilds and lookups in flight, over groups
\* that are saved meanwhile
NextCache ==
    \/ \E b \in CatalogBodies : PutGroupConfig("1", b)
    \/ PutGroupConfig("2", JsonBody(cfgStyled))
    \/ \E c \in ApiCalls : FixedScan(c)
    \/ \E c \in ApiCalls, a \in StepAsks : AskLookup(c, a.questionId, a.phase)
    \/ \E c \in ApiCalls : CatalogAssign(c)
    \/ \E c \in ApiCalls : ApiCallReturn(c)

SpecCache == Init /\ [][NextCache]_vars

\* the GroupSettings page over groups that are also saved directly
NextSettings ==
    \/ \E g \in {"1", "2"}, b \in CatalogBodies : PutGroupConfig(g, b)
    \/ LoadSettings
    \/ SaveSettings

SpecSettings == Init /\ [][NextSettings]_vars

\* a participant page selecting questions while its asks are in flight, over
\* one saved group
NextAsk ==
    \/ SurveyStatusRequest("POST", JsonBody([isOpen |-> TRUE]))
    \/ PutGroupConfig("1", JsonBody(cfgMixed))
    \/ \E p \in Participants : Mount(p)
    \/ \E p \in Participants : CheckSurveyStatus(p)
    \/ \E p \in Participants : LoadQuestions(p)
    \/ \E p \in Participants, i \in 1..3 : SelectQuestion(p, i)
    \/ \E p \in Participants, i \in 1..MaxPending : AskAnswered(p, i)

SpecAsk == Init /\ [][NextAsk]_vars

\* one participant page, reloaded between visits, rating the questions of a
\* group that is saved again meanwhile; the pages meet only at the server,
\* so the visits of one page stand for those of successive participants
NextSurvey ==
    \/ SurveyStatusRequest("POST", JsonBody([isOpen |-> TRUE]))
    \/ \E b \in RateBodies : PutGroupConfig("1", b)
    \/ FixedQuestions
    \/ Mount("p1")
    \/ CheckSurveyStatus("p1")
    \/ LoadQuestions("p1")
    \/ SelectQuestion("p1", 1)
    \/ \E i \in 1..MaxPending : AskAnswered("p1", i)
    \/ SetRating("p1", 3)
    \/ SubmitRating("p1")

SpecSurvey == Init /\ [][NextSurvey]_vars

\* one participant page, reloaded between visits, while the survey is opened
\* and closed
NextClosing ==
    \/ \E b \in {TRUE, FALSE} : SurveyStatusRequest("POST", JsonBody([isOpen |-> b]))
    \/ PutGroupConfig("1", JsonBody(cfgStyled))
    \/ Mount("p1")
    \/ CheckSurveyStatus("p1")
    \/ LoadQuestions("p1")
    \/ SelectQuestion("p1", 1)
    \/ \E i \in 1..MaxPending : AskAnswered("p1", i)
    \/ SetRating("p1", 3)
    \/ SubmitRating("p1")
    \/ HandleFinish("p1")

SpecClosing == Init /\ [][NextClosing]_vars

\* ----------------------------------------------------------------- claims
\* C1: once a deleteQuestion has removed the last question of a group, every
\* get of that groupId answers 404 until the groupId is saved again.
C1_EmptiedGroupNotFound ==
    \A g \in emptied : GetGroupConfig(groups, g).statusCode = 404

\* the second of two saves to one explicit groupId has just answered
SecondSaveDone ==
    /\ resp.op = "save"
    /\ ~NeedsNewId(resp.groupId)
    /\ resp.response.statusCode = 200
    /\ "questionsJson" \in DOMAIN resp.replaced

\* C2 as stated: after the second save a get returns exactly the second
\* payload's fontFace, colorScheme and questions, a field the payload does
\* not carry reading as its default.
C2_SecondSaveReturnedExactly ==
    SecondSaveDone =>
        LET config == resp.body.json
        IN  GetGroupConfig(groups, resp.groupId) =
                [statusCode |-> 200,
                 fontFace |-> Nullish(Attr(config, "fontFace"), "Arial"),
                 colorScheme |-> Nullish(Attr(config, "colorScheme"), "#000000"),
                 questions |-> QuestionsOf(config)]

\* C2 amended: after the second save a get returns the second payload's
\* fontFace, colorScheme and questions, a field the payload omits or gives
\* as the empty string reading as its default; nothing of the first save
\* is left.
C2_SecondSaveReplaces ==
    SecondSaveDone =>
        LET config == resp.body.json
            got == GetGroupConfig(groups, resp.groupId)
            given(a) == a \in DOMAIN config /\ config[a] # ""
        IN  /\ got.statusCode = 200
            /\ got.fontFace = IF given("fontFace") THEN config.fontFace ELSE "Arial"
            /\ got.colorScheme = IF given("colorScheme") THEN config.colorScheme
                                 ELSE "#000000"
            /\ got.questions = QuestionsOf(config)

\* C2 witness: a styled group with a question was replaced by a payload that
\* carries no field at all
C2_Witness ==
    /\ SecondSaveDone
    /\ resp.replaced.fontFace = "Courier"
    /\ resp.replaced.questionsJson # Stringify(<<>>)
    /\ resp.body.json = cfgNone

\* C10: every save without groupId stores its group under an id strictly
\* greater than all ids allocated before it, so no two such saves get the
\* same id.
C10_AllocatedIdsIncrease ==
    (/\ resp.op = "save"
     /\ NeedsNewId(resp.groupId)
     /\ resp.response.statusCode = 200)
        => /\ resp.response.groupId = ToString(allocated[Len(allocated)])
           /\ \A i \in 1..(Len(allocated) - 1) :
                  allocated[i] < allocated[Len(allocated)]

\* the question objects a row's stored blob holds, counted on the blob
CountQuestions(itm) ==
    IF "questionsJson" \in DOMAIN itm
    THEN Cardinality({i \in DOMAIN itm.questionsJson : itm.questionsJson[i].t = "obj"})
    ELSE 0
RECURSIVE TotalQuestions(_, _)
TotalQuestions(table, keys) ==
    IF keys = {} THEN 0
    ELSE LET k == CHOOSE x \in keys : TRUE
         IN  CountQuestions(table[k]) + TotalQuestions(table, keys \ {k})
\* the texts, in order, of the catalog entries of one group
RECURSIVE TextsOfGroup(_, _)
TextsOfGroup(cache, g) ==
    IF cache = <<>> THEN <<>>
    ELSE IF cache[1].groupId = g
         THEN <<cache[1].question>> \o TextsOfGroup(Tail(cache), g)
    ELSE TextsOfGroup(Tail(cache), g)
\* the texts, in order, of the question objects of a stored blob
RECURSIVE TextsOfBlob(_)
TextsOfBlob(json) ==
    IF json = <<>> THEN <<>>
    ELSE IF json[1].t = "obj"
         THEN <<json[1].v.question>> \o TextsOfBlob(Tail(json))
    ELSE TextsOfBlob(Tail(json))
PositionIn(order, g) == CHOOSE i \in DOMAIN order : order[i] = g

\* a catalog rebuild has just completed (GET /fixed-questions, or POST /ask
\* on an empty cache); the Groups table is the one it scanned
RebuildDone == resp.op \in {"fixed-questions", "ask"} /\ resp.rebuilt

\* C3: a rebuild numbers the catalog exactly 1..N, N the number of questions
\* of all rows scanned (a row without question blob, such as the counter row,
\* has none), in scan order and, within a group, in array order.
C3_RebuildNumbersOneToN ==
    RebuildDone =>
        LET N == TotalQuestions(groups, DOMAIN groups)
            cache == allDbQuestions
        IN  /\ Len(cache) = N
            /\ {cache[i].assignedId : i \in DOMAIN cache} = 1..N
            /\ \A i \in DOMAIN cache : cache[i].assignedId = i
            /\ \A i, j \in DOMAIN cache :
                  i < j => PositionIn(resp.order, cache[i].groupId)
                               <= PositionIn(resp.order, cache[j].groupId)
            /\ \A g \in DOMAIN groups :
                  TextsOfGroup(cache, g) =
                      IF "questionsJson" \in DOMAIN groups[g]
                      THEN TextsOfBlob(groups[g].questionsJson) ELSE <<>>
            /\ resp.op = "fixed-questions" =>
                  /\ Len(resp.response.list) = N
                  /\ \A i \in 1..N : resp.response.list[i].id = i

\* C3 witness: a rebuild over the counter row and two groups, the scan giving
\* the counter row first and group 2 before group 1
C3_Witness ==
    /\ RebuildDone
    /\ resp.order = <<COUNTER, "2", "1">>
    /\ Len(allDbQuestions) = 4
    /\ allDbQuestions[4].groupId = "1"

\* the catalog entry that POST /ask was asked for belongs to the group that
\* the scenario's save created
AskedScenarioEntry ==
    /\ e2e.stage = 2
    /\ resp.op = "ask"
    /\ \E i \in DOMAIN allDbQuestions :
          /\ resp.questionId = JsNum(allDbQuestions[i].assignedId)
          /\ allDbQuestions[i].groupId = e2e.groupId
          /\ allDbQuestions[i].question = e2e.q.question

\* C7: after a save without groupId of a group with one question Q, the
\* response carries the allocated groupId; the next /fixed-questions lists an
\* entry with Q's text; asking that entry's id gives Q's preAnswer at once in
\* phase pre, and Q's answer with the group's colorScheme and fontFace in
\* phase final.
C7_EndToEnd ==
    /\ e2e.stage = 1 =>
          /\ resp.response.groupId = ToString(allocated[Len(allocated)])
          /\ e2e.groupId = resp.response.groupId
          /\ HasItem(groups, e2e.groupId)
    /\ (e2e.stage = 2 /\ resp.op = "fixed-questions") =>
          \E i \in DOMAIN resp.response.list :
              /\ resp.response.list[i].question = e2e.q.question
              /\ allDbQuestions[resp.response.list[i].id].groupId = e2e.groupId
    /\ (AskedScenarioEntry /\ resp.phase = "pre") =>
          /\ resp.response.body = [preAnswerMessage |-> e2e.q.preAnswer]
          /\ resp.waitedMs = 0
    /\ (AskedScenarioEntry /\ resp.phase = "final") =>
          resp.response.body = [finalAnswer |-> e2e.q.answer,
                                colorScheme |-> groups[e2e.groupId].colorScheme,
                                fontFace |-> groups[e2e.groupId].fontFace]

\* C7 witness: the final answer of the new group's question was returned
\* while the catalog also held an older group's questions before it
C7_Witness ==
    /\ AskedScenarioEntry
    /\ resp.phase = "final"
    /\ resp.questionId = JsNum(4)
    /\ resp.response.body = [finalAnswer |-> "A1", colorScheme |-> "#111111",
                             fontFace |-> "Courier"]

FiveCounters == {"rating1", "rating2", "rating3", "rating4", "rating5"}
IsWholeRating(r) == IsNumber(r) /\ r.x2 \in {2, 4, 6, 8, 10}

\* C4: when the k ratings accepted for a questionId that had no row were all
\* the same r in 1..5, the aggregate shows rating_r = k, the other four
\* counters 0, and as question the first text the catalog resolved.
C4_SameRatingCounted ==
    \A key \in DOMAIN rated :
        (rated[key].same /\ IsWholeRating(rated[key].rating)) =>
            LET row == RatingSummary(responses[key])
                col == "rating" \o NumberToString(rated[key].rating)
            IN  /\ row[col] = rated[key].count
                /\ \A c \in FiveCounters \ {col} : row[c] = 0
                /\ row.question = IF rated[key].text = "" THEN Undefined
                                  ELSE rated[key].text

\* C4 witness: three ratings of 3 for question 1, its text resolved as "Q1"
\* by the first, while the catalog now resolves id 1 to "Q2"
C4_Witness ==
    /\ "1" \in DOMAIN rated
    /\ rated["1"] = [rating |-> JsNum(3), same |-> TRUE, count |-> 3, text |-> "Q1"]
    /\ ResolveText(allDbQuestions, JsNum(1)) = "Q2"
    /\ resp.op = "rate"

\* the rating of a POST /rate is a number below 1 or above 5
OutOfRange(r) == IsNumber(r) /\ (r.x2 < 2 \/ r.x2 > 10)

\* C5: a submit whose rating is below 1 or above 5 is answered "Invalid
\* input" and changes no Responses row.
C5_OutOfRangeRejected ==
    [][(resp'.op = "rate" /\ OutOfRange(ToNumber(resp'.rating)))
          => /\ resp'.response.body = [message |-> "Invalid input"]
             /\ responses' = responses]_vars

\* C5 witness: a rating of 6 was refused while rows with counters existed
C5_Witness ==
    /\ resp.op = "rate"
    /\ resp.rating = JsNum(6)
    /\ resp.response.body = [message |-> "Invalid input"]
    /\ "1" \in DOMAIN responses
    /\ CounterOf(responses["1"], "rating3") = 2

\* C6: a submit is accepted only with a questionId and a rating that is an
\* integer in 1..5, so a Responses row has no counter column besides
\* rating1..rating5.
C6_OnlyFiveCounters ==
    /\ (resp.op = "rate" /\ resp.response.body.message = "Rating stored") =>
          Truthy(resp.questionId) /\ IsWholeRating(ToNumber(resp.rating))
    /\ \A key \in DOMAIN responses :
          DOMAIN responses[key] \subseteq FiveCounters \cup {"questionId", "question"}

\* what GET /survey-status answers in this state
GateValue == StatusGet(surveyStatus).body.isOpen

\* a GET /survey-status has just answered
StatusGetDone ==
    resp.op = "status" /\ resp.method = "GET" /\ resp.response.statusCode = 200

\* a dashboard has just made the second of two toggles in a row, the first
\* made with no toggle response pending and the second after the first's
\* response was shown
SecondToggleDone ==
    /\ resp.op = "toggle"
    /\ resp.response.statusCode = 200
    /\ resp.first.n = 1
    /\ resp.first.settled
    /\ resp.settled

\* C8 as stated: get returns the value of the most recent set, false when
\* no row exists, and two toggles in a row with no other writer between them
\* return the gate to the value it had before the first.
C8_ToggleTwiceRestoresStored ==
    /\ StatusGetDone =>
          resp.response.body.isOpen = (IF lastSet.n = 0 THEN FALSE ELSE lastSet.isOpen)
    /\ (SecondToggleDone /\ resp.first.alone) => GateValue = resp.first.stored

\* C8: get returns the value of the most recent set, false when no row
\* exists; two toggles in a row from one dashboard leave the gate at the
\* value that dashboard showed before the first toggle, which is the value
\* the gate had then only if the dashboard's view was current.
C8_ToggleTwiceRestoresShown ==
    /\ StatusGetDone =>
          resp.response.body.isOpen = (IF lastSet.n = 0 THEN FALSE ELSE lastSet.isOpen)
    /\ (lastSet.n = 1 /\ resp.op \in {"status", "toggle"}) => GateValue = lastSet.isOpen
    /\ SecondToggleDone => GateValue = resp.first.shown
    /\ (SecondToggleDone /\ resp.first.shown = resp.first.stored) =>
          GateValue = resp.first.stored

\* C8 witness: the second of two toggles in a row by a dashboard whose view
\* was stale at the first: it showed closed while the gate was open
C8_Witness ==
    /\ SecondToggleDone
    /\ resp.first.alone
    /\ resp.first.shown = FALSE
    /\ resp.first.stored = TRUE
    /\ lastSet = [n |-> 1, isOpen |-> FALSE]

\* invocations whose UpdateItem has run, and those that answered 200
Updated == {c \in Calls : calls[c].pc # "idle"}
Answered == {c \in Calls : calls[c].pc = "done" /\ calls[c].response.statusCode = 200}

\* C9: after N invocations of increment on an absent row, in any
\* interleaving, read() is N and the totals the N invocations obtained are
\* the N distinct numbers 1..N, each invocation that answers returning its own.
C9_NoIncrementLost ==
    /\ GetSurveyCounter(surveyCounter).body.count = Cardinality(Updated)
    /\ {calls[c].newCount : c \in Updated} = 1..Cardinality(Updated)
    /\ \A c \in Answered : calls[c].response.body.count = calls[c].newCount
    /\ Answered = Calls =>
          {calls[c].response.body.count : c \in Calls} = 1..MaxCalls

\* C9 witness: all invocations have answered, the one that updated last
\* answering first, and a read has returned their number
C9_Witness ==
    /\ Answered = Calls
    /\ calls[1].response.body.count = MaxCalls
    /\ resp.op = "getSurveyCounter"
    /\ resp.response.body.count = MaxCalls

\* the questions a group row holds, <<>> when its blob is absent or unreadable
StoredQuestions(item) ==
    IF "questionsJson" \in DOMAIN item /\ ParseJson(item.questionsJson).ok
    THEN ParseJson(item.questionsJson).value
    ELSE <<>>

\* C11: after any sequence of saves and deleteQuestions, no group row (the
\* allocator's counter row set aside) holds zero questions.
C11_NoEmptyGroupRows ==
    \A g \in DOMAIN groups \ {COUNTER} : Len(StoredQuestions(groups[g])) > 0

\* the questions of `questions` whose normalized text is not `target`, in order
KeptQuestions(questions, target) ==
    SelectSeq(questions,
              LAMBDA q : Normalize(OrElse(Attr(q, "question"), "")) # target)

\* C12: a deleteQuestion that answers 200 removes all and only the questions
\* of the group whose normalized text equals the normalized input; a row with
\* questions left keeps them in order with its fontFace and colorScheme, a
\* row with none left is removed, and no other row changes.
C12_DeleteRemovesAllAndOnly ==
    [][(resp'.op = "delete" /\ resp'.response.statusCode = 200) =>
          LET g == resp'.groupId
              kept == KeptQuestions(StoredQuestions(groups[g]),
                                    Normalize(resp'.body.json.questionText))
          IN  /\ DOMAIN groups \ {g} = DOMAIN groups' \ {g}
              /\ \A h \in DOMAIN groups \ {g} : groups'[h] = groups[h]
              /\ IF kept = <<>> THEN g \notin DOMAIN groups'
                 ELSE /\ g \in DOMAIN groups'
                      /\ StoredQuestions(groups'[g]) = kept
                      /\ groups'[g].fontFace = groups[g].fontFace
                      /\ groups'[g].colorScheme = groups[g].colorScheme]_vars

\* C12 witness: "q1" deleted from a group of three left the third question,
\* after both questions matching it were removed, beside another group
C12_Witness ==
    /\ resp.op = "delete"
    /\ resp.response.statusCode = 200
    /\ resp.body = JsonBody([questionText |-> "q1"])
    /\ resp.groupId = "1"
    /\ "1" \in DOMAIN groups
    /\ StoredQuestions(groups["1"]) = <<qB>>
    /\ groups["1"].fontFace = "Arial"
    /\ COUNTER \in DOMAIN groups

\* a POST /ask with a questionId has just been answered and the catalog
\* holds no question with that assignedId
AskUnresolved ==
    /\ resp.op = "ask"
    /\ Truthy(resp.questionId)
    /\ FindQuestion(allDbQuestions, resp.questionId) = 0

\* C13: an ask whose assignedId resolves to no catalog question is answered
\* with HTTP 404 and a message, and with neither preAnswerMessage nor
\* finalAnswer.
C13_UnresolvedAskNotFound ==
    AskUnresolved =>
        /\ resp.response.statusCode = 404
        /\ "message" \in DOMAIN resp.response.body
        /\ "preAnswerMessage" \notin DOMAIN resp.response.body
        /\ "finalAnswer" \notin DOMAIN resp.response.body

\* a request that misses a required field or whose body does not parse
MalformedRequest ==
    \/ resp.op = "delete" /\ resp.body \in {NoBody, JsonBody(EmptyObj)}
    \/ resp.op = "save" /\ resp.body = BadBody
    \/ resp.op = "ask" /\ ~Truthy(resp.questionId)
    \/ resp.op = "rate" /\ (~Truthy(resp.questionId)
                               \/ ~RatingInRange(ToNumber(resp.rating)))

\* C14: a request that misses a required field or carries an unparseable
\* JSON body (DELETE without body or questionText, PUT with invalid JSON,
\* /ask without questionId, /rate with invalid input) is answered with
\* HTTP 400.
C14_MalformedRequestIs400 ==
    MalformedRequest => resp.response.statusCode = 400

\* C15: once a Responses row holds a question text, no step of any submit,
\* under any interleaving of submits and catalog rebuilds, changes it.
C15_QuestionTextSetOnce ==
    [][\A key \in DOMAIN responses :
          "question" \in DOMAIN responses[key] =>
              /\ key \in DOMAIN responses'
              /\ "question" \in DOMAIN responses'[key]
              /\ responses'[key].question = responses[key].question]_vars

\* C15 witness: a submit for question 1 finished its back-fill while the
\* cache resolved id 1 to "Q2", and the row still holds the earlier "Q1"
C15_Witness ==
    /\ "1" \in DOMAIN responses
    /\ "question" \in DOMAIN responses["1"]
    /\ responses["1"].question = "Q1"
    /\ \E c \in RateCalls :
          /\ rateCalls[c].pc = "done"
          /\ rateCalls[c].questionId = JsNum(1)
          /\ rateCalls[c].resolved = "Q2"

\* the step is a POST /ask carrying a questionId
AskStep == resp'.op = "ask" /\ Truthy(resp'.questionId)

\* what a cache holds, the numbering set aside: question, answers, delay
\* and group of every entry
CacheContent(cache) ==
    {[f \in DOMAIN cache[i] \ {"assignedId"} |-> cache[i][f]] : i \in DOMAIN cache}

\* C16 as stated: once the cache holds a catalog, it stays as it is until it
\* is empty again or the process restarts, so no later edit shows in it.
C16_CacheKeptUntilEmpty ==
    [][Len(allDbQuestions) # 0 =>
          \/ CacheContent(allDbQuestions') = CacheContent(allDbQuestions)
          \/ allDbQuestions' = <<>>]_vars

\* C16: an ask rebuilds the catalog exactly when the cache is empty and
\* otherwise answers from the cache and leaves it as it is; a cache that
\* holds a catalog changes only by GET /fixed-questions, which rebuilds it on
\* every call, or by a restart of the process.
C16_AskRebuildsOnlyWhenEmpty ==
    [][/\ AskStep =>
            /\ resp'.rebuilt <=> Len(allDbQuestions) = 0
            /\ Len(allDbQuestions) # 0 =>
                  /\ allDbQuestions' = allDbQuestions
                  /\ resp'.response.body =
                        HandleAsk(allDbQuestions, EmptyTable, <<>>,
                                  resp'.questionId, resp'.phase).body
       /\ (Len(allDbQuestions) # 0 /\ allDbQuestions' # allDbQuestions) =>
             resp'.op \in {"fixed-questions", "coldStart"}]_vars

\* C16 witness: an ask was answered from a cache that no longer matches the
\* Groups table: id 1 resolves although the table's questions are gone
C16_Witness ==
    /\ resp.op = "ask"
    /\ ~resp.rebuilt
    /\ "preAnswerMessage" \in DOMAIN resp.response.body
    /\ TotalQuestions(groups, DOMAIN groups) = 0
    /\ Len(allDbQuestions) > 0

\* the step is an add of a researcher with a projectId and an email
AddStep ==
    /\ resp'.op = "project"
    /\ resp'.method = "POST"
    /\ ~Falsy(resp'.projectId)
    /\ "json" \in DOMAIN resp'.body
    /\ ~Falsy(Attr(resp'.body.json, "email"))

\* C17: an add to a project that already holds a row with the same projectId
\* and email is answered 409 and leaves the table as it is; an add of a pair
\* the table does not hold is answered 200 and stores the row, changing no
\* other row.
C17_DuplicateAddIsConflict ==
    [][AddStep =>
          LET key == <<resp'.projectId, resp'.body.json.email>>
          IN  IF key \in DOMAIN projects
              THEN /\ resp'.response.statusCode = 409
                   /\ projects' = projects
              ELSE /\ resp'.response.statusCode = 200
                   /\ DOMAIN projects' = DOMAIN projects \cup {key}
                   /\ projects'[key].id = key[2]
                   /\ projects'[key].projectId = key[1]
                   /\ \A k \in DOMAIN projects : projects'[k] = projects[k]]_vars

\* C17 witness: adding a@x to p1 under another name was refused and the row
\* keeps the first name
C17_Witness ==
    /\ resp.op = "project"
    /\ resp.method = "POST"
    /\ resp.projectId = "p1"
    /\ resp.body = JsonBody([email |-> "a@x", name |-> "Bob"])
    /\ resp.response.statusCode = 409
    /\ <<"p1", "a@x">> \in DOMAIN projects
    /\ projects[<<"p1", "a@x">>].researcherName = "Ann"

\* a POST /ask in a phase other than "pre" has just returned an answer
FinalAnswered ==
    /\ resp.op = "ask"
    /\ "finalAnswer" \in DOMAIN resp.response.body

\* the catalog entry the last ask resolved
AskedEntry == allDbQuestions[FindQuestion(allDbQuestions, resp.questionId)]

\* C18: the final phase of ask returns the colorScheme and fontFace of the
\* group row of the question, whatever fontFace and colorScheme the question
\* object itself carries.
C18_FinalStyleIsGroupLevel ==
    FinalAnswered =>
        /\ DOMAIN resp.response.body = {"finalAnswer", "colorScheme", "fontFace"}
        /\ resp.response.body.finalAnswer = AskedEntry.answer
        /\ HasItem(groups, AskedEntry.groupId) =>
              /\ resp.response.body.colorScheme = groups[AskedEntry.groupId].colorScheme
              /\ resp.response.body.fontFace = groups[AskedEntry.groupId].fontFace

\* C18 witness: the final answer of the question that carries its own
\* fontFace "Courier" and colorScheme "#222222" came with its row's styling
C18_Witness ==
    /\ FinalAnswered
    /\ AskedEntry.question = qA2.question
    /\ HasItem(groups, AskedEntry.groupId)
    /\ resp.response.body = [finalAnswer |-> "A1b", colorScheme |-> "#333333",
                             fontFace |-> "Arial"]

\* the wait the stored delay text stands for: its number of seconds, one
\* second when it is empty or not a number
DelayMs(delay) ==
    IF delay # "" /\ IsNumber(StringToNumber(delay))
    THEN (StringToNumber(delay).x2 * 1000) \div 2
    ELSE 1000

\* C19: the final phase of ask waits the question's delay in seconds, one
\* second when the stored delay is absent or not a number, and not at all
\* for a delay of "0".
C19_WaitIsDelayOrOneSecond ==
    FinalAnswered => resp.waitedMs = DelayMs(AskedEntry.delay)

\* the rows whose blob JSON.parse rejects
BrokenKeys ==
    {g \in DOMAIN groups :
        "questionsJson" \in DOMAIN groups[g] /\ ~ParseJson(groups[g].questionsJson).ok}

\* the number of questions in the rows with the given keys
RECURSIVE QuestionsIn(_, _)
QuestionsIn(table, keys) ==
    IF keys = {} THEN 0
    ELSE LET k == CHOOSE x \in keys : TRUE
         IN  Len(StoredQuestions(table[k])) + QuestionsIn(table, keys \ {k})

\* C20: a rebuild over a table with rows whose blob is malformed succeeds;
\* such a row contributes no question, and the questions of the other rows
\* are flattened in scan and array order and numbered 1..N.
C20_MalformedBlobIsEmpty ==
    RebuildDone =>
        LET N == QuestionsIn(groups, DOMAIN groups \ BrokenKeys)
        IN  /\ resp.response.statusCode = 200
            /\ Len(allDbQuestions) = N
            /\ \A i \in DOMAIN allDbQuestions : allDbQuestions[i].assignedId = i
            /\ \A g \in BrokenKeys : TextsOfGroup(allDbQuestions, g) = <<>>
            /\ \A g \in DOMAIN groups \ BrokenKeys :
                  TextsOfGroup(allDbQuestions, g) =
                      [i \in 1..Len(StoredQuestions(groups[g])) |->
                          StoredQuestions(groups[g])[i].question]
            /\ \A i, j \in DOMAIN allDbQuestions :
                  i < j => PositionIn(resp.order, allDbQuestions[i].groupId)
                               <= PositionIn(resp.order, allDbQuestions[j].groupId)

\* C20 witness: a rebuild scanned a row with a cut-short blob between two
\* well-formed rows and numbered their four questions
C20_Witness ==
    /\ RebuildDone
    /\ resp.op = "fixed-questions"
    /\ resp.order = <<"1", "2", "3">>
    /\ BrokenKeys = {"2"}
    /\ groups["2"].questionsJson = <<LBracket, ObjTok(qA)>>
    /\ Len(resp.response.list) = 4
    /\ resp.response.list[2].id = 2

\* the row a PutItem of one save's payload leaves: all three fields from
\* that payload
PayloadRow(groupId, config) ==
    [groupId |-> groupId,
     fontFace |-> OrElse(Attr(config, "fontFace"), "Arial"),
     colorScheme |-> OrElse(Attr(config, "colorScheme"), "#000000"),
     questionsJson |-> Stringify(QuestionsOf(config))]

SavedOk(c) ==
    /\ groupCalls[c].pc = "saved"
    /\ groupCalls[c].response.statusCode = 200

\* C21: after two saves to the same groupId have both completed, the stored
\* row is exactly the row of one of the two payloads: fontFace, colorScheme
\* and questions all from the same save, whatever the order of their steps.
C21_LastWriteWinsWhole ==
    \A c, d \in GroupCalls :
        (c # d /\ SavedOk(c) /\ SavedOk(d)
              /\ groupCalls[c].groupId = groupCalls[d].groupId) =>
            /\ HasItem(groups, groupCalls[c].groupId)
            /\ groups[groupCalls[c].groupId] \in
                  {PayloadRow(groupCalls[c].groupId, groupCalls[c].body.json),
                   PayloadRow(groupCalls[d].groupId, groupCalls[d].body.json)}

\* C21 witness: two saves of different payloads to group "1" overlapped, the
\* one that began second wrote first, and the row is the other's payload
C21_Witness ==
    /\ SavedOk("g1") /\ SavedOk("g2")
    /\ groupCalls["g1"].groupId = "1" /\ groupCalls["g2"].groupId = "1"
    /\ groupCalls["g1"].body = JsonBody(cfgMixed)
    /\ groupCalls["g2"].body = JsonBody(cfgStyled)
    /\ groupCalls["g2"].overlaps
    /\ groups["1"] = PayloadRow("1", cfgMixed)

\* invocation c's delete returns in this step
DeleteReturns(c) ==
    /\ groupCalls[c].pc = "read"
    /\ groupCalls'[c].pc = "deleted"

\* the questions of `questions` whose normalized text differs from `target`
NonMatching(questions, target) ==
    {questions[i] : i \in {j \in DOMAIN questions :
        Normalize(OrElse(Attr(questions[j], "question"), "")) # Normalize(target)}}

\* the questions the row of groupId holds in `table`
QuestionsStored(table, groupId) ==
    IF HasItem(table, groupId)
    THEN {StoredQuestions(table[groupId])[i] :
              i \in DOMAIN StoredQuestions(table[groupId])}
    ELSE {}

\* C25: when a delete returns, every question with another normalized text
\* that a save stored in the group between the delete's read and its write is
\* still in the group.
C25_DeleteKeepsConcurrentSave ==
    [][\A c \in GroupCalls :
          (DeleteReturns(c) /\ groupCalls[c].savedSince # <<>>) =>
              NonMatching(groupCalls[c].savedSince[1], groupCalls[c].questionText)
                  \subseteq QuestionsStored(groups', groupCalls[c].groupId)]_vars

\* C22: whatever rebuilds and cached lookups overlap in one process, the
\* cache is empty or the complete flattening of one single Scan: its
\* assignedIds are 1..length, and it holds the questions of every row of
\* that Scan, all of them, row by row in the scan's order.
C22_CacheIsOneWholeScan ==
    /\ \A i \in DOMAIN allDbQuestions : allDbQuestions[i].assignedId = i
    /\ Len(allDbQuestions) = QuestionsIn(cacheScan.table, DOMAIN cacheScan.table)
    /\ \A g \in DOMAIN cacheScan.table :
          TextsOfGroup(allDbQuestions, g) =
              [i \in 1..Len(StoredQuestions(cacheScan.table[g])) |->
                  StoredQuestions(cacheScan.table[g])[i].question]
    /\ \A i, j \in DOMAIN allDbQuestions :
          i < j => PositionIn(cacheScan.order, allDbQuestions[i].groupId)
                       <= PositionIn(cacheScan.order, allDbQuestions[j].groupId)

\* C22 witness: a lookup was answered from a cache that is stale while a
\* rebuild over the edited table is in progress
C22_Witness ==
    /\ Len(allDbQuestions) = 4
    /\ cacheScan.table # groups
    /\ apiCalls["a1"].pc = "scanned"
    /\ apiCalls["a1"].table = groups
    /\ apiCalls["a1"].table # cacheScan.table
    /\ apiCalls["a2"].pc = "answered"
    /\ apiCalls["a2"].route = "ask"
    /\ ~apiCalls["a2"].rebuilt
    /\ apiCalls["a2"].body = [preAnswerMessage |-> allDbQuestions[1].preAnswer]

\* C23: a save without groupId never replaces a row: no row exists under the
\* id it allocates.
C23_AllocatedIdIsFree ==
    (/\ resp.op = "save"
     /\ NeedsNewId(resp.groupId)
     /\ resp.response.statusCode = 200)
        => resp.replaced = EmptyObj

\* the question texts a group row holds, in array order
TextsOfRow(item) ==
    [i \in 1..Len(StoredQuestions(item)) |->
        Attr(StoredQuestions(item)[i], "question")]

\* the page holds what a load of the groups as stored now gives
SettingsAsStored ==
    \E order \in Orders(DOMAIN groups) :
        settings.questions = FetchSettings(groups, order)

\* C24: pressing Save Settings on a page that holds the stored groups as
\* loaded, nothing edited, leaves every group with the questions it had.
C24_LoadSaveKeepsQuestions ==
    [][(resp'.op = "saveSettings" /\ SettingsAsStored) =>
          /\ DOMAIN groups' = DOMAIN groups
          /\ \A g \in DOMAIN groups :
                TextsOfRow(groups'[g]) = TextsOfRow(groups[g])]_vars

\* C27: for every questionId, rating1 + ... + rating5 of its row is the
\* number of submits accepted for it.
C27_CountersSumToAccepted ==
    \A k \in DOMAIN rated :
        /\ HasItem(responses, k)
        /\ CounterOf(responses[k], "rating1") + CounterOf(responses[k], "rating2")
             + CounterOf(responses[k], "rating3") + CounterOf(responses[k], "rating4")
             + CounterOf(responses[k], "rating5") = rated[k].count

\* the invocations of POST /incrementSurveyCounter that answered with status
Replied(status) ==
    {c \in Calls : calls[c].pc = "done" /\ calls[c].response.statusCode = status}

\* C29: an increment that answers HTTP 500 leaves the stored count as it
\* was: with no invocation in flight, the stored count is the number of
\* increments that answered 200.
C29_FailedIncrementNotCounted ==
    (\A c \in Calls : calls[c].pc \in {"idle", "done"}) =>
        GetSurveyCounter(surveyCounter).body.count = Cardinality(Replied(200))

\* the catalog entry of the question participant p has selected
SelectedEntry(p) ==
    allDbQuestions[FindQuestion(allDbQuestions,
                                JsNum(participant[p].selectedQuestion.id))]

\* C28: a pre-answer or a final answer on display, with its color and font,
\* is the answer to the question that is selected.
C28_ShownAnswerIsOfSelected ==
    \A p \in Participants :
        LET page == participant[p]
        IN  /\ page.preMessage # "" => page.preMessage = SelectedEntry(p).preAnswer
            /\ page.finalAnswer # "" =>
                  /\ page.finalAnswer = SelectedEntry(p).answer
                  /\ page.answerColor = OrElse(SelectedEntry(p).colorScheme, "#000")
                  /\ page.answerFont = OrElse(SelectedEntry(p).fontFace, "Arial")

\* C26: the ratings accumulated in one Responses row were all submitted for
\* one question, the one whose text the row records.
C26_RowRatesOneQuestion ==
    \A k \in DOMAIN ratedFor :
        /\ Cardinality(ratedFor[k]) = 1
        /\ "question" \in DOMAIN responses[k] => ratedFor[k] = {responses[k].question}

\* C30: a rating is recorded and a completion is counted only while the
\* SurveyStatus row says the survey is open: no step changes the Responses
\* table or the completion count while isOpen is false or the row is absent.
C30_ClosedSurveyRecordsNothing ==
    [][(responses' # responses \/ surveyCounter' # surveyCounter) => GateValue]_vars
====
